---- MODULE Spec2Model ----
(***************************************************************************)
(* Task lifecycle and billing reconciliation of the async media gateway.   *)
(*                                                                         *)
(*   controller/task_video.go   scheduled sweep (updateVideoSingleTask)    *)
(*   relay/relay_task.go        submission (RelayTaskSubmit), on-demand    *)
(*                              fetch (videoFetchByIDRespBodyBuilder),     *)
(*                              model mapping (applyTaskModelMapping)      *)
(*   relay/channel/task/xai     poll normalisation (ParseTaskResult)       *)
(*                                                                         *)
(* Quotas are integers.  Durations are counted in tenths of a second, so   *)
(* that 8.7 s is 87 and int(float64(q) * d / 8.7) is (q * d) \div 87.      *)
(***************************************************************************)
EXTENDS Integers, Sequences, FiniteSets, TLC

VARIABLES
    tasks,       \* task store: task id -> row, or NoTask
    userQuota,   \* the user's balance
    tokenQuota,  \* the balance of the user's token
    now,         \* wall clock, seconds
    sweep,       \* the scheduled sweep: position and in-memory copy of a row
    fetch,       \* on-demand fetch requests: position and in-memory copy
    subs,        \* submission requests (RelayTaskSubmit), one per submitter
    audit,       \* what reconciliation and submission did to ledger and log
    polls,       \* provider polls made so far
    cfg          \* configuration: ratio table, channel mapping, fault switch

vars == <<tasks, userQuota, tokenQuota, now, sweep, fetch, subs, audit, polls, cfg>>

----------------------------------------------------------------------------
(* Bounds of the model *)

MaxFetchers == 1
MaxSubmitters == 2
MaxPolls == 2
MaxTicks == 1
InitBalance == 15
MaxQuota == 10
ShortDur == 40
LongDur == 90
FewTokens == 2
ManyTokens == 15
LongVideo == 300

\* the configured timeout (constant.VideoTaskTimeoutMinutes)
VideoTaskTimeoutMinutes == 1

\* common.QuotaPerUnit, scaled down
QuotaPerUnit == 5

(* Program constants *)

\* 1.0 in tenths
Tenth == 10

MaxDurationTenths == 87
MaxKeep == 256
ModerationDurationTenths == 80

TimeoutSecs == VideoTaskTimeoutMinutes * 60

\* HTTP statuses
StatusOK == 200
StatusBadRequest == 400
StatusUnauthorized == 401
StatusForbidden == 403
StatusNotFound == 404
StatusInternalServerError == 500

----------------------------------------------------------------------------
(* Task rows *)

TaskStatusNotStart == "NOT_START"
TaskStatusSubmitted == "SUBMITTED"
TaskStatusQueued == "QUEUED"
TaskStatusInProgress == "IN_PROGRESS"
TaskStatusFailure == "FAILURE"
TaskStatusSuccess == "SUCCESS"
TaskStatusUnknown == "UNKNOWN"

TaskActionGenerate == "generate"
TaskActionEdit == "edit"
TaskActionRemix == "remixGenerate"

ChannelTypeXai == "xai"
ChannelTypeVolc == "volc"

NoTask == [status |-> "none"]

\* the user whose tasks and balance are followed, and another user
Owner == "u1"
Stranger == "u2"
UserIds == {Owner, Stranger}

Terminal == {TaskStatusSuccess, TaskStatusFailure}

TaskIds == 1 .. MaxSubmitters
Fetchers == 1 .. MaxFetchers

Min(a, b) == IF a <= b THEN a ELSE b

----------------------------------------------------------------------------
(* Channel model mapping: applyTaskModelMapping *)

ModelNames == {"A", "B", "C"}

\* a mapping table gives each name its redirect, "" when it has none
NoMapping == [m \in ModelNames |-> ""]
MappingOf(a, b, c) == [m \in ModelNames |-> IF m = "A" THEN a ELSE IF m = "B" THEN b ELSE c]

\* the loop, from currentModel with the names visited so far; the result is
\* the error (if any), IsModelMapped and UpstreamModelName
RECURSIVE MappingLoop(_, _, _, _, _)
MappingLoop(modelMap, origin, currentModel, visited, isMapped) ==
    LET mappedModel == modelMap[currentModel]
    IN  IF mappedModel # ""
          THEN IF mappedModel \in visited
                 THEN IF mappedModel = currentModel
                        THEN IF currentModel = origin
                               THEN [err |-> "", mapped |-> FALSE, upstream |-> ""]
                               ELSE [err |-> "", mapped |-> TRUE, upstream |-> currentModel]
                        ELSE [err |-> "cycle", mapped |-> isMapped, upstream |-> ""]
                 ELSE MappingLoop(modelMap, origin, mappedModel,
                                  visited \cup {mappedModel}, TRUE)
          ELSE [err |-> "", mapped |-> isMapped,
                upstream |-> IF isMapped THEN currentModel ELSE ""]

\* a loop that looks each name up twice, once for exists and once for the
\* mapped name
RECURSIVE MappingLookupsTwice(_, _, _)
MappingLookupsTwice(modelMap, currentModel, visited) ==
    LET mappedModel == modelMap[currentModel]
    IN  IF mappedModel # "" /\ mappedModel \notin visited
          THEN 2 + MappingLookupsTwice(modelMap, mappedModel, visited \cup {mappedModel})
          ELSE 2

\* the lookups modelMap[currentModel] the loop makes from currentModel: one
\* in each pass, and a pass goes on to the next only with a name not visited
RECURSIVE MappingLookups(_, _, _)
MappingLookups(modelMap, currentModel, visited) ==
    LET mappedModel == modelMap[currentModel]
    IN  IF mappedModel # "" /\ mappedModel \notin visited
          THEN 1 + MappingLookups(modelMap, mappedModel, visited \cup {mappedModel})
          ELSE 1

\* a resolver without the visited set's check: it follows the chain two hops
ApplyTaskModelMappingNoCycleCheck(modelMap, origin) ==
    LET one == IF modelMap[origin] # "" THEN modelMap[origin] ELSE origin
        two == IF modelMap[one] # "" THEN modelMap[one] ELSE one
    IN  [err |-> "", mapped |-> two # origin, upstream |-> IF two # origin THEN two ELSE ""]

\* a resolver that takes every revisit, a self-mapping too, for a cycle
ApplyTaskModelMappingSelfIsCycle(modelMap, origin) ==
    IF modelMap[origin] = ""
      THEN [err |-> "", mapped |-> FALSE, upstream |-> ""]
    ELSE IF modelMap[origin] = origin \/ modelMap[modelMap[origin]] \in {origin, modelMap[origin]}
      THEN [err |-> "cycle", mapped |-> FALSE, upstream |-> ""]
    ELSE [err |-> "", mapped |-> TRUE,
          upstream |-> IF modelMap[modelMap[origin]] # ""
                         THEN modelMap[modelMap[origin]] ELSE modelMap[origin]]

\* a resolver that stops after the first hop
ApplyTaskModelMappingOneHop(modelMap, origin) ==
    IF modelMap[origin] \in {"", origin}
      THEN [err |-> "", mapped |-> FALSE, upstream |-> ""]
      ELSE [err |-> "", mapped |-> TRUE, upstream |-> modelMap[origin]]

\* a resolver that takes every chain that comes back to the origin, after
\* however many hops, for no mapping
ApplyTaskModelMappingBackToOrigin(modelMap, origin) ==
    LET one == modelMap[origin]
        two == IF one = "" THEN "" ELSE modelMap[one]
        three == IF two = "" THEN "" ELSE modelMap[two]
    IN  IF origin \in {one, two, three}
          THEN [err |-> "", mapped |-> FALSE, upstream |-> ""]
          ELSE MappingLoop(modelMap, origin, origin, {origin}, FALSE)

ApplyTaskModelMapping(modelMap, origin) ==
    IF modelMap = NoMapping
      THEN [err |-> "", mapped |-> FALSE, upstream |-> ""]
      ELSE MappingLoop(modelMap, origin, origin, {origin}, FALSE)

----------------------------------------------------------------------------
(* Provider poll results, as the adaptors normalise them (TaskInfo) *)

ReasonModeration == "Content Moderation: blocked"
ReasonExpired == "request expired"
ReasonInternal == "internal error"
ReasonEmptyStatus == "upstream returned empty status"
ReasonTimedOut == "task timed out"
ReasonChannel == "Failed to get channel info"
ResultUrl == "https://video"

FailureReasons == {ReasonModeration, ReasonExpired, ReasonInternal}

TaskInfo(st, rs, d, tk) == [status |-> st, reason |-> rs, dur |-> d, tokens |-> tk]

\* strings.ToLower on the reason texts that occur
ToLower(s) == IF s = ReasonModeration THEN "content moderation: blocked" ELSE s

\* strings.Contains(lower, "content moderation") on the reason texts that occur
ContainsModeration(s) == s \in {"content moderation: blocked", "content moderation"}

IsModeration(reason) == ContainsModeration(ToLower(reason))

DurChoices == {0, ShortDur, MaxDurationTenths, LongDur}
TokenChoices == {0, FewTokens, MaxQuota, ManyTokens}

\* xAI: pending -> QUEUED, done -> SUCCESS with the video's duration,
\* expired (also a 404) -> FAILURE, an error body -> FAILURE with its text
XaiParseTaskResult ==
    {TaskInfo(TaskStatusQueued, "", 0, 0)}
    \cup {TaskInfo(TaskStatusSuccess, "", d, 0) : d \in DurChoices}
    \cup {TaskInfo(TaskStatusFailure, rs, 0, 0) : rs \in FailureReasons}

\* the token-metered provider: queued, running, succeeded with usage, failed,
\* expired, and UNKNOWN for a missing or unrecognised status
VolcParseTaskResult ==
    {TaskInfo(st, "", 0, 0) : st \in {TaskStatusQueued, TaskStatusInProgress, TaskStatusUnknown}}
    \cup {TaskInfo(TaskStatusSuccess, "", 0, tk) : tk \in TokenChoices}
    \cup {TaskInfo(TaskStatusFailure, rs, 0, 0) : rs \in {ReasonModeration, ReasonInternal}}

\* a response in the gateway's own task format: the upstream row's status as it is
GatewayTaskResult ==
    {TaskInfo(st, "", 0, 0) : st \in {"", TaskStatusNotStart, TaskStatusSubmitted}}

ParseTaskResult(platform) ==
    IF platform = ChannelTypeXai THEN XaiParseTaskResult ELSE VolcParseTaskResult

\* relaycommon.FailTaskInfo as the sweep uses it for an empty status
FailTaskInfo(reason) == TaskInfo(TaskStatusFailure, reason, 0, 0)

----------------------------------------------------------------------------
(* Poll response bodies and their redaction: redactVideoResponseBody.  A   *)
(* body is described by what its "response" object embeds: whether it has  *)
(* bytesBase64Encoded, the length of its "video" string (0: none) and      *)
(* whether that string ends with the "..." marker, and for each entry of   *)
(* "videos" whether it has bytesBase64Encoded.                             *)

Payload(bytes, len, marker, videos) ==
    [bytes |-> bytes, video |-> [len |-> len, marker |-> marker], videos |-> videos]

NoPayload == Payload(FALSE, 0, FALSE, <<>>)

\* the bodies a provider may answer with, when bodies are followed
Bodies ==
    IF cfg.payloads
      THEN {Payload(b, n, FALSE, vs) :
              b \in BOOLEAN, n \in {0, MaxKeep, LongVideo},
              vs \in {<<>>, <<FALSE>>, <<TRUE>>, <<FALSE, TRUE>>}}
      ELSE {NoPayload}

truncateBase64(v) ==
    IF v.len <= MaxKeep THEN v ELSE [len |-> MaxKeep, marker |-> TRUE]

redactVideoResponseBody(body) ==
    [bytes |-> FALSE,
     video |-> truncateBase64(body.video),
     videos |-> [i \in DOMAIN body.videos |-> FALSE]]

\* what the sweep puts in task.Data: the upstream row's data as it is for a
\* response in the gateway's format, the redacted body otherwise
SweepData(res, body) ==
    IF res \in GatewayTaskResult
      THEN body
      ELSE redactVideoResponseBody(body)

\* what the fetch puts in originTask.Data: the body, on a change to Success
FetchData(t, ti, body) ==
    IF ti.status = TaskStatusSuccess /\ t.status # TaskStatusSuccess
      THEN body
      ELSE t.data

----------------------------------------------------------------------------
(* Billing arithmetic *)

\* a wrong settlement: rounds up instead of truncating
DurationQuotaRoundUp(q, d) ==
    LET actualDuration == Min(d, MaxDurationTenths)
    IN  IF actualDuration < MaxDurationTenths
          THEN ((q * actualDuration) + MaxDurationTenths - 1) \div MaxDurationTenths
          ELSE q

\* deferred billing of an edit by its actual duration, capped at 8.7 s
DurationQuota(q, d) ==
    LET actualDuration == Min(d, MaxDurationTenths)
        scaled == (q * actualDuration) \div MaxDurationTenths
    IN  IF actualDuration < MaxDurationTenths
          THEN (IF scaled <= 0 THEN 1 ELSE scaled)
          ELSE q

\* an edit rejected by moderation is billed as 8 of 8.7 seconds
ModerationQuota(q) ==
    LET scaled == (q * ModerationDurationTenths) \div MaxDurationTenths
    IN  IF scaled <= 0 THEN 1 ELSE scaled

\* int(float64(totalTokens) * modelRatio * finalGroupRatio)
TokenQuota(tokens) == tokens * cfg.modelRatio * cfg.groupRatio

HasToken(t) == t.tokenId > 0

(* What one reconciliation does besides writing the row:                    *)
(*   user, token   balance changes made before the row is written           *)
(*   refund        the amount refunded after the row is written (or 0)      *)
(*   ops           ledger mutations made before the row is written          *)
(*   consume, sys, zero   audit records: consume logs, system logs, and     *)
(*                 the consume logs among them that carry quota 0           *)
(*   err           the handler returned before writing the row              *)
Effects(t, u, k, rf, o, c, s, z, e) ==
    [task |-> t, user |-> u, token |-> k, refund |-> rf, ops |-> o,
     consume |-> c, sys |-> s, zero |-> z, err |-> e]

NoBilling(t) == Effects(t, 0, 0, 0, 0, 0, 0, 0, FALSE)

----------------------------------------------------------------------------
(* The scheduled sweep: updateVideoSingleTask on an in-memory copy t *)

\* SUCCESS: token re-billing when the model has a ratio, then the deferred
\* duration billing of an edit
SweepSuccess(t, r, lok) ==
    LET preStatus == t.status
        t1 == [t EXCEPT !.status = TaskStatusSuccess,
                        !.finishTime = IF @ = 0 THEN now ELSE @,
                        !.failReason = ResultUrl]
        metered == r.tokens > 0 /\ cfg.modelRatio > 0
        actualQuota == TokenQuota(r.tokens)
        quotaDelta == actualQuota - t.quota
        settled == metered /\ quotaDelta # 0 /\ lok
        t2 == IF settled THEN [t1 EXCEPT !.quota = actualQuota] ELSE t1
        edit == /\ preStatus # TaskStatusSuccess
                /\ t.action = TaskActionEdit
                /\ r.dur > 0
                /\ t2.quota > 0
        durQuota == DurationQuota(t2.quota, r.dur)
        refundQuota == t2.quota - durQuota
        t3 == IF edit THEN [t2 EXCEPT !.quota = durQuota] ELSE t2
        credited == edit /\ refundQuota > 0
    IN  Effects(t3,
                (IF settled THEN -quotaDelta ELSE 0)
                    + (IF credited /\ lok THEN refundQuota ELSE 0),
                IF credited /\ HasToken(t) THEN refundQuota ELSE 0,
                0,
                (IF settled THEN 1 ELSE 0) + (IF credited /\ lok THEN 1 ELSE 0),
                IF edit THEN 1 ELSE 0,
                IF settled THEN 1 ELSE 0,
                0,
                FALSE)

\* FAILURE: moderation keeps the charge (an edit is settled at 8 s), any
\* other reason refunds the whole quota once the row is written
SweepFailure(t, r, lok) ==
    LET quota == t.quota
        preStatus == t.status
        t1 == [t EXCEPT !.status = TaskStatusFailure,
                        !.finishTime = IF @ = 0 THEN now ELSE @,
                        !.failReason = r.reason]
        isModeration == IsModeration(r.reason)
        moderationQuota == ModerationQuota(t.quota)
        refundDiff == t.quota - moderationQuota
    IN  IF isModeration /\ quota # 0 /\ preStatus # TaskStatusFailure
          THEN IF t.action = TaskActionEdit
                 THEN Effects([t1 EXCEPT !.quota = moderationQuota],
                              IF refundDiff > 0 /\ lok THEN refundDiff ELSE 0,
                              IF refundDiff > 0 /\ HasToken(t) THEN refundDiff ELSE 0,
                              0,
                              IF refundDiff > 0 /\ lok THEN 1 ELSE 0,
                              1, 0, 0, FALSE)
                 ELSE Effects(t1, 0, 0, 0, 0, 1, 0, 1, FALSE)
          ELSE IF ~isModeration /\ quota # 0 /\ preStatus # TaskStatusFailure
                 THEN Effects([t1 EXCEPT !.quota = 0], 0, 0, quota, 0, 0, 0, 0, FALSE)
                 ELSE NoBilling(t1)

\* the status switch; an empty status is replaced by a failure first
SweepEffects(t, res, lok) ==
    LET r == IF res.status = "" THEN FailTaskInfo(ReasonEmptyStatus) ELSE res
    IN  CASE r.status = TaskStatusSubmitted ->
               NoBilling([t EXCEPT !.status = TaskStatusSubmitted])
          [] r.status = TaskStatusQueued ->
               NoBilling([t EXCEPT !.status = TaskStatusQueued])
          [] r.status = TaskStatusInProgress ->
               NoBilling([t EXCEPT !.status = TaskStatusInProgress,
                                   !.startTime = IF @ = 0 THEN now ELSE @])
          [] r.status = TaskStatusSuccess -> SweepSuccess(t, r, lok)
          [] r.status = TaskStatusFailure -> SweepFailure(t, r, lok)
          [] OTHER -> Effects(t, 0, 0, 0, 0, 0, 0, 0, TRUE)

\* a timeout check that takes the configured minutes for hours
TimedOutInHours(t) ==
    /\ VideoTaskTimeoutMinutes > 0
    /\ t.submitTime > 0
    /\ now - t.submitTime > TimeoutSecs * 60

\* the timeout branch: no poll, failure, and a refund unless the copy was
\* already a failure
TimedOut(t) ==
    /\ VideoTaskTimeoutMinutes > 0
    /\ t.submitTime > 0
    /\ now - t.submitTime > TimeoutSecs

\* the timeout branch without the reset of the quota
TimeoutEffectsKeepQuota(t) ==
    LET t1 == [t EXCEPT !.status = TaskStatusFailure,
                        !.finishTime = now,
                        !.failReason = ReasonTimedOut]
    IN  IF t.quota # 0 /\ t.status # TaskStatusFailure
          THEN Effects(t1, 0, 0, t.quota, 0, 0, 0, 0, FALSE)
          ELSE NoBilling(t1)

\* lines 79-105: the task is failed, its quota zeroed and refunded
TimeoutEffects(t) ==
    LET quota == t.quota
        preStatus == t.status
        t1 == [t EXCEPT !.status = TaskStatusFailure,
                        !.finishTime = now,
                        !.failReason = ReasonTimedOut]
    IN  IF quota # 0 /\ preStatus # TaskStatusFailure
          THEN Effects([t1 EXCEPT !.quota = 0], 0, 0, quota, 0, 0, 0, 0, FALSE)
          ELSE NoBilling(t1)

----------------------------------------------------------------------------
(* The on-demand fetch: videoFetchByIDRespBodyBuilder on a copy t *)

FetchEffects(t, ti, lok) ==
    LET prevStatus == t.status
        t1 == [t EXCEPT !.status = IF ti.status # "" THEN ti.status ELSE @,
                        !.failReason = IF ti.reason # "" THEN ti.reason
                                       ELSE IF ti.status = TaskStatusSuccess
                                              THEN ResultUrl ELSE @]
        statusChanged == prevStatus # t1.status
        settle == /\ statusChanged
                  /\ t1.status = TaskStatusSuccess
                  /\ t.action = TaskActionEdit
                  /\ ti.dur > 0
                  /\ t.quota > 0
        durQuota == DurationQuota(t.quota, ti.dur)
        refundQuota == t.quota - durQuota
        failed == /\ statusChanged
                  /\ t1.status = TaskStatusFailure
                  /\ t.action = TaskActionEdit
                  /\ t.quota > 0
    IN  IF settle
          THEN Effects([t1 EXCEPT !.quota = durQuota],
                       IF refundQuota > 0 /\ lok THEN refundQuota ELSE 0,
                       IF refundQuota > 0 /\ HasToken(t) THEN refundQuota ELSE 0,
                       0,
                       IF refundQuota > 0 /\ lok THEN 1 ELSE 0,
                       1, 0, 0, FALSE)
          ELSE IF failed
                 THEN Effects([t1 EXCEPT !.quota = 0],
                              IF lok THEN t.quota ELSE 0,
                              IF HasToken(t) THEN t.quota ELSE 0,
                              0,
                              IF lok THEN 1 ELSE 0,
                              0, 0, 0, FALSE)
                 ELSE NoBilling(t1)

----------------------------------------------------------------------------
(* Store and ledger *)

\* Task.Update: the whole in-memory row is saved over the stored one
Update(store, id, t, ok) == IF ok THEN [store EXCEPT ![id] = t] ELSE store

\* the audit record of task id after a reconciliation with effects e
Audited(a, id, e, refunded, lok) ==
    LET before == e.user
        after == IF refunded /\ lok THEN e.refund ELSE 0
    IN  [a EXCEPT ![id].ops = @ + e.ops + (IF refunded /\ lok THEN 1 ELSE 0),
                  ![id].credited = @ + (IF before > 0 THEN before ELSE 0) + after,
                  ![id].debited = @ + (IF before < 0 THEN -before ELSE 0),
                  ![id].consume = @ + e.consume,
                  ![id].sys = @ + e.sys + (IF refunded THEN 1 ELSE 0),
                  ![id].zero = @ + e.zero]

\* model.GetByTaskId: the row with this id among the rows of this user
GetByTaskId(store, userId, taskId) ==
    IF taskId \in TaskIds /\ store[taskId] # NoTask /\ store[taskId].userId = userId
      THEN store[taskId]
      ELSE NoTask

\* storage and ledger writes fail only when the fault switch is on
Outcomes == IF cfg.faulty THEN BOOLEAN ELSE {TRUE}

Idle == [pc |-> "idle", id |-> 0, t |-> NoTask]

\* balances, row and audit after a handler with effects e; the refund that
\* waits for the row (shouldRefund) is made only when the row was written
Reconciled(id, e, uok, lok) ==
    LET written == ~e.err /\ uok
        refunded == written /\ e.refund # 0
    IN  /\ tasks' = IF e.err THEN tasks ELSE Update(tasks, id, e.task, uok)
        /\ userQuota' = userQuota + e.user + (IF refunded /\ lok THEN e.refund ELSE 0)
        /\ tokenQuota' = tokenQuota + e.token
                            + (IF refunded /\ HasToken(e.task) THEN e.refund ELSE 0)
        /\ audit' = Audited(audit, id, e, refunded, lok)

----------------------------------------------------------------------------
(* Reconciliation steps *)

\* the sweep's caller hands it the unfinished rows, read before the sweep
SweepLoad(id) ==
    /\ sweep.pc = "idle"
    /\ tasks[id] # NoTask
    /\ tasks[id].status \notin Terminal
    /\ sweep' = [pc |-> "loaded", id |-> id, t |-> tasks[id]]
    /\ UNCHANGED <<tasks, userQuota, tokenQuota, now, fetch, subs, audit, polls, cfg>>

\* model.TaskBulkUpdate: the named columns of the stored row are set
TaskBulkUpdate(store, id, status, failReason) ==
    [store EXCEPT ![id].status = status, ![id].failReason = failReason]

\* updateVideoTaskAll: the channel of the loaded tasks cannot be read; they
\* are failed in bulk and the sweep of the channel ends
SweepChannelLost ==
    /\ sweep.pc = "loaded"
    /\ tasks' = TaskBulkUpdate(tasks, sweep.id, TaskStatusFailure, ReasonChannel)
    /\ sweep' = Idle
    /\ UNCHANGED <<userQuota, tokenQuota, now, fetch, subs, audit, polls, cfg>>

\* a row older than the timeout is failed and refunded without a poll
SweepTimeout(uok, lok) ==
    /\ sweep.pc = "loaded"
    /\ TimedOut(sweep.t)
    /\ Reconciled(sweep.id, TimeoutEffects(sweep.t), uok, lok)
    /\ sweep' = Idle
    /\ UNCHANGED <<now, fetch, subs, polls, cfg>>

\* a handler that takes a failed poll for a failed task
SweepPollErrorFailsTask ==
    /\ sweep.pc = "loaded"
    /\ ~TimedOut(sweep.t)
    /\ polls < MaxPolls
    /\ polls' = polls + 1
    /\ tasks' = TaskBulkUpdate(tasks, sweep.id, TaskStatusFailure, ReasonInternal)
    /\ sweep' = Idle
    /\ UNCHANGED <<userQuota, tokenQuota, now, fetch, subs, audit, cfg>>

\* FetchTask, the body read or ParseTaskResult failed: the handler returns
SweepPollError ==
    /\ sweep.pc = "loaded"
    /\ ~TimedOut(sweep.t)
    /\ polls < MaxPolls
    /\ polls' = polls + 1
    /\ sweep' = Idle
    /\ UNCHANGED <<tasks, userQuota, tokenQuota, now, fetch, subs, audit, cfg>>

\* the poll answered res: status switch, billing, row write, refund
SweepReconcile(res, uok, lok) ==
    /\ sweep.pc = "loaded"
    /\ ~TimedOut(sweep.t)
    /\ polls < MaxPolls
    /\ res \in ParseTaskResult(sweep.t.platform) \cup GatewayTaskResult
    /\ \E body \in Bodies :
         Reconciled(sweep.id,
                    SweepEffects([sweep.t EXCEPT !.data = SweepData(res, body)], res, lok),
                    uok, lok)
    /\ polls' = polls + 1
    /\ sweep' = Idle
    /\ UNCHANGED <<now, fetch, subs, cfg>>

\* the answer of a fetch that ended at the lookup: to the ids asked, the row
\* of a fetch by id (t), the rows of a batch fetch (ids), or the error
Answered(userId, asked, t, ids, err) ==
    [pc |-> "answered", user |-> userId, asked |-> asked, t |-> t, ids |-> ids,
     err |-> err]

\* a fetcher takes its next request once the last one was answered
Ready(f) == fetch[f].pc \in {"idle", "answered"}

\* a fetch by id that looks the id up among all users' rows
FetchReadAnyUser(f, userId, id) ==
    /\ Ready(f)
    /\ id \in TaskIds
    /\ fetch' = [fetch EXCEPT ![f] =
          IF tasks[id] = NoTask
            THEN Answered(userId, {id}, NoTask, {}, "task_not_exist")
            ELSE [pc |-> "read", user |-> userId, id |-> id, t |-> tasks[id]]]
    /\ UNCHANGED <<tasks, userQuota, tokenQuota, now, sweep, subs, audit, polls, cfg>>

\* videoFetchByIDRespBodyBuilder, the lookup: GetByTaskId for the requesting
\* user; without a row the answer is task_not_exist
FetchRead(f, userId, id) ==
    LET originTask == GetByTaskId(tasks, userId, id)
    IN  /\ Ready(f)
        /\ fetch' = [fetch EXCEPT ![f] =
              IF originTask = NoTask
                THEN Answered(userId, {id}, NoTask, {}, "task_not_exist")
                ELSE [pc |-> "read", user |-> userId, id |-> id, t |-> originTask]]
        /\ UNCHANGED <<tasks, userQuota, tokenQuota, now, sweep, subs, audit, polls, cfg>>

\* sunoFetchByIDRespBodyBuilder: the user's row is answered as stored
SunoFetchByID(f, userId, id) ==
    LET originTask == GetByTaskId(tasks, userId, id)
    IN  /\ Ready(f)
        /\ fetch' = [fetch EXCEPT ![f] =
              Answered(userId, {id}, originTask, {},
                       IF originTask = NoTask THEN "task_not_exist" ELSE "")]
        /\ UNCHANGED <<tasks, userQuota, tokenQuota, now, sweep, subs, audit, polls, cfg>>

\* model.GetByTaskIds: the rows with these ids among the rows of this user
GetByTaskIds(store, userId, ids) ==
    {id \in ids : GetByTaskId(store, userId, id) # NoTask}

\* sunoFetchRespBodyBuilder: the user's rows among the asked ids are
\* answered with code success
SunoFetch(f, userId, ids) ==
    /\ Ready(f)
    /\ fetch' = [fetch EXCEPT ![f] =
          Answered(userId, ids, NoTask, GetByTaskIds(tasks, userId, ids), "")]
    /\ UNCHANGED <<tasks, userQuota, tokenQuota, now, sweep, subs, audit, polls, cfg>>

\* relay modes: the three with a response builder, and one without
RelayModeUnknown == "Unknown"
RelayModeSunoFetchByID == "SunoFetchByID"
RelayModeSunoFetch == "SunoFetch"
RelayModeVideoFetchByID == "VideoFetchByID"

\* the keys of fetchRespBuilders
fetchRespBuilders ==
    {RelayModeSunoFetchByID, RelayModeSunoFetch, RelayModeVideoFetchByID}

\* RelayTaskFetch: the builder of the relay mode is looked up and called.
\* Without a builder taskResp is set to invalid_relay_mode, but the function
\* goes on to call the builder it did not find, and the call of the nil
\* function panics: the request ends with no return value and no body
RelayTaskFetch(f, relayMode, userId, id, ids) ==
    IF relayMode \notin fetchRespBuilders
      THEN /\ Ready(f)
           /\ fetch' = [fetch EXCEPT ![f] = Answered(userId, {}, NoTask, {}, "panic")]
           /\ UNCHANGED <<tasks, userQuota, tokenQuota, now, sweep, subs, audit, polls, cfg>>
    ELSE IF relayMode = RelayModeSunoFetchByID THEN SunoFetchByID(f, userId, id)
    ELSE IF relayMode = RelayModeSunoFetch THEN SunoFetch(f, userId, ids)
    ELSE FetchRead(f, userId, id)

\* the channel is of a type the fetch does not poll, or the poll failed:
\* the stored row is answered as it was read
FetchNoPoll(f) ==
    /\ fetch[f].pc = "read"
    /\ fetch' = [fetch EXCEPT ![f] = Idle]
    /\ UNCHANGED <<tasks, userQuota, tokenQuota, now, sweep, subs, audit, polls, cfg>>

\* the poll answered ti: status, billing of an edit, row write
FetchReconcile(f, ti, uok, lok) ==
    /\ fetch[f].pc = "read"
    /\ fetch[f].t.platform = ChannelTypeXai
    /\ polls < MaxPolls
    /\ ti \in ParseTaskResult(fetch[f].t.platform)
    /\ \E body \in Bodies :
         LET e == FetchEffects(fetch[f].t, ti, lok)
         IN  Reconciled(fetch[f].id,
                        [e EXCEPT !.task.data = FetchData(fetch[f].t, ti, body)],
                        uok, lok)
    /\ polls' = polls + 1
    /\ fetch' = [fetch EXCEPT ![f] = Idle]
    /\ UNCHANGED <<now, sweep, subs, cfg>>

\* the answer of the provider to a poll: the HTTP status and the body, which
\* is an error object (error not empty) or a poll response with a status and
\* the duration of its video
PollAnswer(code, error, status, dur) ==
    [code |-> code, error |-> error, status |-> status, dur |-> dur]

\* xAI FetchTask: 404 becomes the body {"status":"expired"}, 400 is handed on
\* with its body, any other status than 200 is an error
XaiFetchTask(answer) ==
    IF answer.code = StatusNotFound
      THEN [err |-> FALSE, body |-> PollAnswer(StatusOK, "", "expired", 0)]
    ELSE IF answer.code = StatusBadRequest THEN [err |-> FALSE, body |-> answer]
    ELSE IF answer.code # StatusOK THEN [err |-> TRUE, body |-> answer]
    ELSE [err |-> FALSE, body |-> answer]

\* xAI ParseTaskResult on a body
XaiParseBody(body) ==
    IF body.error # "" THEN TaskInfo(TaskStatusFailure, body.error, 0, 0)
    ELSE IF body.status = "pending" THEN TaskInfo(TaskStatusQueued, "", 0, 0)
    ELSE IF body.status = "done" THEN TaskInfo(TaskStatusSuccess, "", body.dur, 0)
    ELSE IF body.status = "expired" THEN TaskInfo(TaskStatusFailure, ReasonExpired, 0, 0)
    ELSE IF body.dur > 0 THEN TaskInfo(TaskStatusSuccess, "", body.dur, 0)
    ELSE TaskInfo(TaskStatusQueued, "", 0, 0)

\* the sweep's poll of an xAI task with the provider's answer: FetchTask, then
\* ParseTaskResult and the reconciliation, or the return on the poll's error
SweepPoll(answer, uok, lok) ==
    LET fetched == XaiFetchTask(answer)
    IN  /\ sweep.pc = "loaded"
        /\ sweep.t.platform = ChannelTypeXai
        /\ IF fetched.err
             THEN SweepPollError
             ELSE SweepReconcile(XaiParseBody(fetched.body), uok, lok)

\* UpdateVideoTaskAll on a batch: the channels still to do (the task ids of
\* each), the task ids still to do of the channel at hand, the rows as they
\* were read for the batch (taskM), the ids taken up so far, in that order,
\* the ids for which an error was logged, and the value returned
Batch(pc, channels, ids, taskM, seen, errs, ret) ==
    [pc |-> pc, channels |-> channels, ids |-> ids, taskM |-> taskM, seen |-> seen,
     errs |-> errs, ret |-> ret]

Range(seq) == {seq[i] : i \in DOMAIN seq}

\* the caller read the unfinished rows, grouped them by channel and calls
\* UpdateVideoTaskAll; the channels come in the order of a map's range
BatchBegin(order) ==
    /\ sweep.pc = "idle"
    /\ \A i \in DOMAIN order : \A id \in Range(order[i]) :
           tasks[id] # NoTask /\ tasks[id].status \notin Terminal
    /\ sweep' = Batch("channels", order, <<>>, [id \in TaskIds |-> tasks[id]], <<>>, <<>>, "")
    /\ UNCHANGED <<tasks, userQuota, tokenQuota, now, fetch, subs, audit, polls, cfg>>

\* model.TaskBulkUpdate on several ids
TaskBulkUpdateAll(store, ids, status, failReason) ==
    [id \in DOMAIN store |->
        IF id \in ids THEN TaskBulkUpdate(store, id, status, failReason)[id]
                      ELSE store[id]]

\* updateVideoTaskAll up to the loop over the tasks: nothing to do for a
\* channel without tasks; a channel that cannot be read has its tasks failed
\* in bulk (an error of that update is only logged) and the error returned;
\* without an adaptor the error is returned; UpdateVideoTaskAll logs the
\* error and goes on to the next channel
BatchChannel(lookup, uok) ==
    /\ sweep.pc = "channels"
    /\ sweep.channels # <<>>
    /\ LET taskIds == Head(sweep.channels)
           rest == Tail(sweep.channels)
       IN  IF Len(taskIds) = 0
             THEN /\ sweep' = [sweep EXCEPT !.channels = rest]
                  /\ tasks' = tasks
           ELSE IF lookup = "lost"
             THEN /\ tasks' = IF uok
                                THEN TaskBulkUpdateAll(tasks, Range(taskIds),
                                                       TaskStatusFailure, ReasonChannel)
                                ELSE tasks
                  /\ sweep' = [sweep EXCEPT !.channels = rest,
                                            !.seen = @ \o taskIds, !.errs = @ \o taskIds]
           ELSE IF lookup = "no_adaptor"
             THEN /\ tasks' = tasks
                  /\ sweep' = [sweep EXCEPT !.channels = rest,
                                            !.seen = @ \o taskIds, !.errs = @ \o taskIds]
           ELSE /\ tasks' = tasks
                /\ sweep' = [sweep EXCEPT !.pc = "tasks", !.channels = rest,
                                          !.ids = taskIds]
    /\ UNCHANGED <<userQuota, tokenQuota, now, fetch, subs, audit, polls, cfg>>

\* updateVideoSingleTask on the batch's copy t of task id: the timeout
\* branch, the return on a failed poll (FetchTask, the body read or
\* ParseTaskResult; polled is false), or the reconciliation of the result
SingleTask(id, t, polled, poll, uok, lok) ==
    IF TimedOut(t)
      THEN /\ Reconciled(id, TimeoutEffects(t), uok, lok)
           /\ polls' = polls
    ELSE IF ~polled
      THEN /\ UNCHANGED <<tasks, userQuota, tokenQuota, audit>>
           /\ polls' = polls + 1
    ELSE /\ poll \in ParseTaskResult(t.platform) \cup GatewayTaskResult
         /\ \E body \in Bodies :
              Reconciled(id, SweepEffects([t EXCEPT !.data = SweepData(poll, body)], poll, lok),
                         uok, lok)
         /\ polls' = polls + 1

\* updateVideoSingleTask returned an error
SingleTaskFailed(t, polled, poll, uok) ==
    IF TimedOut(t) THEN ~uok
    ELSE \/ ~polled
         \/ poll \in {TaskInfo(st, "", 0, 0) : st \in {TaskStatusUnknown, TaskStatusNotStart}}

\* a loop over the tasks that gives up the batch at the first error
BatchTaskStopsAtError(polled, poll, uok, lok) ==
    /\ sweep.pc = "tasks"
    /\ LET id == Head(sweep.ids)
           left == IF SingleTaskFailed(sweep.taskM[id], polled, poll, uok)
                     THEN <<>> ELSE Tail(sweep.ids)
       IN  /\ SingleTask(id, sweep.taskM[id], polled, poll, uok, lok)
           /\ sweep' = [sweep EXCEPT !.ids = left, !.seen = Append(@, id),
                                     !.errs = IF SingleTaskFailed(sweep.taskM[id], polled, poll, uok)
                                                THEN Append(@, id) ELSE @,
                                     !.channels = IF SingleTaskFailed(sweep.taskM[id], polled, poll, uok)
                                                    THEN <<>> ELSE @,
                                     !.pc = IF left = <<>> THEN "channels" ELSE "tasks"]
    /\ UNCHANGED <<now, fetch, subs, cfg>>

\* the loop over the tasks of a channel: the handler runs for the next task;
\* its error is logged and the loop goes on
BatchTask(polled, poll, uok, lok) ==
    /\ sweep.pc = "tasks"
    /\ LET id == Head(sweep.ids)
           left == Tail(sweep.ids)
       IN  /\ SingleTask(id, sweep.taskM[id], polled, poll, uok, lok)
           /\ sweep' = [sweep EXCEPT !.ids = left, !.seen = Append(@, id),
                                     !.errs = IF SingleTaskFailed(sweep.taskM[id], polled, poll, uok)
                                                THEN Append(@, id) ELSE @,
                                     !.pc = IF left = <<>> THEN "channels" ELSE "tasks"]
    /\ UNCHANGED <<now, fetch, subs, cfg>>

\* no channel is left: UpdateVideoTaskAll returns nil
BatchReturn ==
    /\ sweep.pc = "channels"
    /\ sweep.channels = <<>>
    /\ sweep' = [sweep EXCEPT !.pc = "returned", !.ret = "nil"]
    /\ UNCHANGED <<tasks, userQuota, tokenQuota, now, fetch, subs, audit, polls, cfg>>

\* time passes: the clock moves on by a little more than the timeout
Tick ==
    /\ now + TimeoutSecs + 1 <= 1 + MaxTicks * (TimeoutSecs + 1)
    /\ now' = now + TimeoutSecs + 1
    /\ UNCHANGED <<tasks, userQuota, tokenQuota, sweep, fetch, subs, audit, polls, cfg>>

----------------------------------------------------------------------------
(* Pricing of a submission: prices and ratios are in tenths *)

\* the prices and ratios in force and the billing hints of a request
Price(modelPrice, groupRatio, hasUserGroupRatio, userGroupRatio, otherRatios, imageCount, imagePrice, videoSeconds, videoPrice) ==
    [modelPrice |-> modelPrice, groupRatio |-> groupRatio,
     hasUserGroupRatio |-> hasUserGroupRatio, userGroupRatio |-> userGroupRatio,
     otherRatios |-> otherRatios, imageCount |-> imageCount, imagePrice |-> imagePrice,
     videoSeconds |-> videoSeconds, videoPrice |-> videoPrice]

NoPrice == Price(Tenth, Tenth, FALSE, 0, <<>>, 0, 0, 0, 0)

\* constant.TaskPricePatches: the models billed per call
TaskPricePatches == {"C"}

\* the loop over OtherRatios: ratio *= ra unless ra is 1.0; the ratio is a
\* fraction n / d
RECURSIVE TimesOtherRatios(_, _)
TimesOtherRatios(ratio, otherRatios) ==
    IF otherRatios = <<>> THEN ratio
    ELSE LET ra == Head(otherRatios)
         IN  TimesOtherRatios(IF ra # Tenth
                                THEN [n |-> ratio.n * ra, d |-> ratio.d * Tenth]
                                ELSE ratio,
                              Tail(otherRatios))

\* a pre-charge that adds the surcharges to the amount before it is truncated
PreChargeFoldsSurcharges(p, modelName) ==
    LET r == IF p.hasUserGroupRatio THEN p.userGroupRatio ELSE p.groupRatio
        ratio == TimesOtherRatios([n |-> p.modelPrice * r, d |-> Tenth * Tenth],
                                  IF modelName \notin TaskPricePatches
                                    THEN p.otherRatios ELSE <<>>)
    IN  (ratio.n * QuotaPerUnit * Tenth * Tenth
           + p.imagePrice * p.imageCount * r * QuotaPerUnit * ratio.d
           + p.videoPrice * p.videoSeconds * r * QuotaPerUnit * ratio.d)
        \div (ratio.d * Tenth * Tenth)

\* lines 170-219: the quota of the model price and ratios, then the input
\* image and input video surcharges, each made an integer on its own
PreCharge(p, modelName) ==
    LET groupRatio == p.groupRatio
        userGroupRatio == p.userGroupRatio
        ratio0 == IF p.hasUserGroupRatio
                    THEN [n |-> p.modelPrice * userGroupRatio, d |-> Tenth * Tenth]
                    ELSE [n |-> p.modelPrice * groupRatio, d |-> Tenth * Tenth]
        ratio == IF modelName \notin TaskPricePatches
                   THEN TimesOtherRatios(ratio0, p.otherRatios)
                   ELSE ratio0
        quota == (ratio.n * QuotaPerUnit) \div ratio.d
        effectiveGroupRatio == IF p.hasUserGroupRatio THEN userGroupRatio ELSE groupRatio
        xaiInputImageQuota ==
            IF p.imageCount > 0 /\ p.imagePrice > 0
              THEN (p.imagePrice * p.imageCount * effectiveGroupRatio * QuotaPerUnit)
                     \div (Tenth * Tenth)
              ELSE 0
        xaiInputVideoQuota ==
            IF p.videoSeconds > 0 /\ p.videoPrice > 0
              THEN (p.videoPrice * p.videoSeconds * effectiveGroupRatio * QuotaPerUnit)
                     \div (Tenth * Tenth)
              ELSE 0
    IN  quota + xaiInputImageQuota + xaiInputVideoQuota

----------------------------------------------------------------------------
(* Reconciliation of one submitted task *)

\* model.InitTask and the fields RelayTaskSubmit sets before the insert
InitTask(platform, action, quota, tokenId, clock) ==
    [status |-> TaskStatusSubmitted, quota |-> quota, action |-> action,
     platform |-> platform, tokenId |-> tokenId, submitTime |-> clock,
     startTime |-> 0, finishTime |-> 0, failReason |-> "", userId |-> Owner,
     data |-> NoPayload]

NoAudit == [charged |-> 0, ops |-> 0, credited |-> 0, debited |-> 0,
            consume |-> 0, sys |-> 0, zero |-> 0]

QuotaChoices == {0, 1, MaxQuota}

\* the kinds of submitted task: an xAI generation, an xAI edit (the token is
\* kept for the refund), a token-metered generation with or without a ratio
Submitted ==
    {<<ChannelTypeXai, TaskActionGenerate, 0, 0>>,
     <<ChannelTypeXai, TaskActionEdit, 1, 0>>,
     <<ChannelTypeVolc, TaskActionGenerate, 0, 0>>,
     <<ChannelTypeVolc, TaskActionGenerate, 0, 1>>}

NoSubs == [s \in TaskIds |-> [pc |-> "none"]]

InitRecon(faulty) ==
    \E k \in Submitted, q \in QuotaChoices :
        /\ tasks = [id \in TaskIds |->
                      IF id = 1 THEN InitTask(k[1], k[2], q, k[3], 1) ELSE NoTask]
        /\ userQuota = InitBalance - q
        /\ tokenQuota = InitBalance - q
        /\ now = 1
        /\ sweep = Idle
        /\ fetch = [f \in Fetchers |-> Idle]
        /\ subs = NoSubs
        /\ audit = [id \in TaskIds |->
                      IF id = 1 THEN [NoAudit EXCEPT !.charged = q] ELSE NoAudit]
        /\ polls = 0
        /\ cfg = [modelRatio |-> k[4], groupRatio |-> 1, faulty |-> faulty,
                  mapping |-> NoMapping, payloads |-> FALSE, price |-> NoPrice]

----------------------------------------------------------------------------
(* Submission: RelayTaskSubmit, one request per submitter s; the task the   *)
(* provider creates for it gets id s                                        *)


\* DoRequest returned an error instead of a response
TransportError == 0

Actions == {TaskActionGenerate, TaskActionEdit, TaskActionRemix}

NewSub == [pc |-> "start", user |-> "", action |-> "", origin |-> "",
           originTaskId |-> 0, mapped |-> FALSE,
           upstream |-> "", quota |-> 0, did |-> {}, err |-> "", code |-> 0]

\* the error return: what the request did, and the error the caller gets
Failed(sub, did, err, code) ==
    [NewSub EXCEPT !.pc = "done", !.user = sub.user, !.origin = sub.origin,
                   !.originTaskId = sub.originTaskId,
                   !.did = did, !.err = err, !.code = code]

\* a balance check that forgets the pre-charge
QuotaNotEnoughIgnoresCharge(balance, quota) == balance < 0

\* line 221: userQuota-quota < 0
QuotaNotEnough(balance, quota) == balance - quota < 0

\* the remix's video_id and origin task (originTaskId, 0 when the path has
\* none), model mapping, the adaptor's validation, pricing, the balance read
\* and the check of the balance against the pre-charge
SubmitBegin(s, userId, action, origin, originTaskId, valid, quota) ==
    LET m == ApplyTaskModelMapping(cfg.mapping, origin)
        remix == action = TaskActionRemix
        sub == [subs[s] EXCEPT !.user = userId, !.action = action, !.origin = origin,
                               !.originTaskId = originTaskId,
                               !.mapped = m.mapped, !.upstream = m.upstream]
        looked == IF remix THEN {"lookup"} ELSE {}
    IN  /\ subs[s].pc = "start"
        /\ subs' = [subs EXCEPT ![s] =
              IF remix /\ originTaskId = 0
                THEN Failed(sub, {}, "invalid_request", StatusBadRequest)
              ELSE IF remix /\ GetByTaskId(tasks, userId, originTaskId) = NoTask
                THEN Failed(sub, looked, "task_not_exist", StatusBadRequest)
              ELSE IF m.err # ""
                THEN Failed(sub, looked \cup {"mapping"},
                            "model_mapping_failed", StatusBadRequest)
              ELSE IF ~valid
                THEN Failed(sub, looked \cup {"mapping", "validate"},
                            "invalid_request", StatusBadRequest)
              ELSE IF QuotaNotEnough(userQuota, quota)
                THEN Failed(sub, looked \cup {"mapping", "validate", "price"},
                            "quota_not_enough", StatusForbidden)
              ELSE [sub EXCEPT !.pc = "reserved", !.quota = quota,
                               !.did = looked \cup {"mapping", "validate", "price"}]]
        /\ UNCHANGED <<tasks, userQuota, tokenQuota, now, sweep, fetch, audit, polls, cfg>>

\* BuildRequestBody and DoRequest; upstream is the status of the provider's
\* answer, or TransportError
SubmitRequest(s, built, upstream) ==
    /\ subs[s].pc = "reserved"
    /\ subs' = [subs EXCEPT ![s] =
          LET did == subs[s].did \cup {"request"}
          IN  IF ~built
                THEN Failed(@, @.did, "build_request_failed", StatusInternalServerError)
              ELSE IF upstream = StatusOK THEN [@ EXCEPT !.pc = "sent", !.did = did]
              ELSE IF upstream = TransportError
                THEN Failed(@, did, "do_request_failed", StatusInternalServerError)
              ELSE Failed(@, did, "fail_to_fetch_task", upstream)]
    /\ UNCHANGED <<tasks, userQuota, tokenQuota, now, sweep, fetch, audit, polls, cfg>>

\* an insert that reports its error after the row was written
SubmitInsertKeepsRow(s, parsed, inserted) ==
    /\ subs[s].pc = "sent"
    /\ subs' = [subs EXCEPT ![s] =
          IF ~parsed
            THEN Failed(@, @.did, "invalid_response", StatusInternalServerError)
          ELSE IF ~inserted
            THEN Failed(@, @.did \cup {"insert"}, "insert_task_failed",
                        StatusInternalServerError)
          ELSE [@ EXCEPT !.pc = "inserted", !.did = @ \cup {"insert"}]]
    /\ tasks' = IF ~parsed THEN tasks
                ELSE [tasks EXCEPT ![s] =
                        [InitTask(ChannelTypeXai, subs[s].action, subs[s].quota,
                                  IF subs[s].action = TaskActionEdit THEN 1 ELSE 0, now)
                           EXCEPT !.userId = subs[s].user]]
    /\ UNCHANGED <<userQuota, tokenQuota, now, sweep, fetch, audit, polls, cfg>>

\* DoResponse and the task insert; the edit keeps the token for its refund
SubmitInsert(s, parsed, inserted) ==
    /\ subs[s].pc = "sent"
    /\ IF ~parsed
         THEN /\ subs' = [subs EXCEPT ![s] =
                    Failed(@, @.did, "invalid_response", StatusInternalServerError)]
              /\ tasks' = tasks
         ELSE IF ~inserted
         THEN /\ subs' = [subs EXCEPT ![s] =
                    Failed(@, @.did \cup {"insert"}, "insert_task_failed",
                           StatusInternalServerError)]
              /\ tasks' = tasks
         ELSE /\ subs' = [subs EXCEPT ![s].pc = "inserted", ![s].did = @ \cup {"insert"}]
              /\ tasks' = [tasks EXCEPT ![s] =
                    [InitTask(ChannelTypeXai, subs[s].action, subs[s].quota,
                              IF subs[s].action = TaskActionEdit THEN 1 ELSE 0, now)
                       EXCEPT !.userId = subs[s].user]]
    /\ UNCHANGED <<userQuota, tokenQuota, now, sweep, fetch, audit, polls, cfg>>

\* service.PostConsumeQuota: the user and the token are debited
PostConsumeQuota(quota) ==
    /\ userQuota' = userQuota - quota
    /\ tokenQuota' = tokenQuota - quota

\* the deferred function on the success return: the debit, whose error is
\* only logged, and, unless the task is an edit, the consume log
SubmitCharge(s, ok) ==
    /\ subs[s].pc = "inserted"
    /\ IF ok THEN PostConsumeQuota(subs[s].quota)
             ELSE UNCHANGED <<userQuota, tokenQuota>>
    /\ audit' = [audit EXCEPT ![s].charged = IF ok THEN subs[s].quota ELSE @,
                              ![s].consume = @ + (IF subs[s].quota # 0
                                                     /\ subs[s].action # TaskActionEdit
                                                   THEN 1 ELSE 0)]
    /\ subs' = [subs EXCEPT ![s].pc = "done",
                            ![s].did = IF ok THEN @ \cup {"charge"} ELSE @]
    /\ UNCHANGED <<tasks, now, sweep, fetch, polls, cfg>>

----------------------------------------------------------------------------
(* Specifications *)

\* the channel's table {A -> B, B -> A}
CycleAB == MappingOf("B", "A", "")

\* the channel's table {A -> A}
SelfA == MappingOf("A", "", "")

MappingChoices ==
    {NoMapping, SelfA, MappingOf("B", "", ""), CycleAB}

UpstreamOutcomes ==
    {TransportError, StatusOK, StatusBadRequest, StatusInternalServerError}

InitSubmit ==
    \E mp \in MappingChoices :
        /\ tasks = [id \in TaskIds |-> NoTask]
        /\ userQuota = InitBalance
        /\ tokenQuota = InitBalance
        /\ now = 1
        /\ sweep = Idle
        /\ fetch = [f \in Fetchers |-> Idle]
        /\ subs = [s \in TaskIds |-> NewSub]
        /\ audit = [id \in TaskIds |-> NoAudit]
        /\ polls = 0
        /\ cfg = [modelRatio |-> 0, groupRatio |-> 1, faulty |-> FALSE, mapping |-> mp,
                  payloads |-> FALSE, price |-> NoPrice]

NextSubmit ==
    \/ \E s \in TaskIds, action \in Actions, origin \in {"A", "C"}, valid \in BOOLEAN :
          \E userId \in (IF action = TaskActionRemix THEN UserIds ELSE {Owner}),
             originTaskId \in (IF action = TaskActionRemix THEN TaskIds \cup {0} ELSE {0}) :
            SubmitBegin(s, userId, action, origin, originTaskId, valid, MaxQuota)
    \/ \E s \in TaskIds, built \in BOOLEAN, upstream \in UpstreamOutcomes :
            SubmitRequest(s, built, upstream)
    \/ \E s \in TaskIds, parsed \in BOOLEAN, inserted \in BOOLEAN :
            SubmitInsert(s, parsed, inserted)
    \/ \E s \in TaskIds, ok \in Outcomes : SubmitCharge(s, ok)

\* concurrent submissions of one user
SpecSubmit == InitSubmit /\ [][NextSubmit]_vars

Init == InitRecon(FALSE)

Next ==
    \/ \E id \in TaskIds : SweepLoad(id)
    \/ SweepChannelLost
    \/ \E uok \in Outcomes, lok \in Outcomes : SweepTimeout(uok, lok)
    \/ SweepPollError
    \/ \E res \in XaiParseTaskResult \cup VolcParseTaskResult \cup GatewayTaskResult,
          uok \in Outcomes, lok \in Outcomes : SweepReconcile(res, uok, lok)
    \/ \E f \in Fetchers, id \in TaskIds : tasks[id] # NoTask /\ FetchRead(f, Owner, id)
    \/ \E f \in Fetchers : FetchNoPoll(f)
    \/ \E f \in Fetchers, ti \in XaiParseTaskResult,
          uok \in Outcomes, lok \in Outcomes : FetchReconcile(f, ti, uok, lok)
    \/ Tick

\* sweep and on-demand fetches reconciling one submitted task
Spec == Init /\ [][Next]_vars

\* the same, for one charged xAI task, with the response bodies followed
InitData ==
    /\ tasks = [id \in TaskIds |->
                  IF id = 1
                    THEN InitTask(ChannelTypeXai, TaskActionGenerate, MaxQuota, 0, 1)
                    ELSE NoTask]
    /\ userQuota = InitBalance - MaxQuota
    /\ tokenQuota = InitBalance - MaxQuota
    /\ now = 1
    /\ sweep = Idle
    /\ fetch = [f \in Fetchers |-> Idle]
    /\ subs = NoSubs
    /\ audit = [id \in TaskIds |->
                  IF id = 1 THEN [NoAudit EXCEPT !.charged = MaxQuota] ELSE NoAudit]
    /\ polls = 0
    /\ cfg = [modelRatio |-> 0, groupRatio |-> 1, faulty |-> FALSE,
              mapping |-> NoMapping, payloads |-> TRUE, price |-> NoPrice]

SpecData == InitData /\ [][Next]_vars

\* concurrent submissions of one user whose debit can fail
InitCharge ==
    /\ tasks = [id \in TaskIds |-> NoTask]
    /\ userQuota = InitBalance
    /\ tokenQuota = InitBalance
    /\ now = 1
    /\ sweep = Idle
    /\ fetch = [f \in Fetchers |-> Idle]
    /\ subs = [s \in TaskIds |-> NewSub]
    /\ audit = [id \in TaskIds |-> NoAudit]
    /\ polls = 0
    /\ cfg = [modelRatio |-> 0, groupRatio |-> 1, faulty |-> TRUE,
              mapping |-> NoMapping, payloads |-> FALSE, price |-> NoPrice]

SpecCharge == InitCharge /\ [][NextSubmit]_vars

\* every mapping table over the model names
MappingTables == [ModelNames -> ModelNames \cup {""}]

InitMapping ==
    \E mp \in MappingTables :
        /\ tasks = [id \in TaskIds |-> NoTask]
        /\ userQuota = InitBalance
        /\ tokenQuota = InitBalance
        /\ now = 1
        /\ sweep = Idle
        /\ fetch = [f \in Fetchers |-> Idle]
        /\ subs = [s \in TaskIds |-> NewSub]
        /\ audit = [id \in TaskIds |-> NoAudit]
        /\ polls = 0
        /\ cfg = [modelRatio |-> 0, groupRatio |-> 1, faulty |-> FALSE, mapping |-> mp,
                  payloads |-> FALSE, price |-> NoPrice]

\* valid generate requests for each model name, accepted by the provider
NextMapping ==
    \/ \E s \in TaskIds, origin \in ModelNames :
            SubmitBegin(s, Owner, TaskActionGenerate, origin, 0, TRUE, MaxQuota)
    \/ \E s \in TaskIds : SubmitRequest(s, TRUE, StatusOK)
    \/ \E s \in TaskIds : SubmitInsert(s, TRUE, TRUE)
    \/ \E s \in TaskIds, ok \in Outcomes : SubmitCharge(s, ok)

\* submissions through a channel with any mapping table
SpecMapping == InitMapping /\ [][NextMapping]_vars

\* the prices, ratios and hints followed: a model price of 0.5 or 1.0, a
\* group ratio of 1.0 or 1.5, a user-group ratio of 0.5 or none, other ratios
\* with and without 1.0, up to two input images and an input video
PriceChoices ==
    {Price(mp, gr, ug # 0, ug, ors, im[1], im[2], vd[1], vd[2]) :
        mp \in {5, Tenth}, gr \in {Tenth, 15}, ug \in {0, 5},
        ors \in {<<>>, <<Tenth>>, <<15>>, <<15, 5>>},
        im \in {<<0, 0>>, <<1, 3>>, <<2, 3>>}, vd \in {<<0, 0>>, <<3, 1>>}}

InitPrice ==
    \E p \in PriceChoices :
        /\ tasks = [id \in TaskIds |-> NoTask]
        /\ userQuota = InitBalance
        /\ tokenQuota = InitBalance
        /\ now = 1
        /\ sweep = Idle
        /\ fetch = [f \in Fetchers |-> Idle]
        /\ subs = [s \in TaskIds |-> NewSub]
        /\ audit = [id \in TaskIds |-> NoAudit]
        /\ polls = 0
        /\ cfg = [modelRatio |-> 0, groupRatio |-> 1, faulty |-> FALSE,
                  mapping |-> NoMapping, payloads |-> FALSE, price |-> p]

\* valid requests for a model priced by its ratios and for a model billed
\* per call, accepted by the provider
NextPrice ==
    \/ \E s \in TaskIds, origin \in {"A", "C"} :
            SubmitBegin(s, Owner, TaskActionGenerate, origin, 0, TRUE,
                        PreCharge(cfg.price, origin))
    \/ \E s \in TaskIds : SubmitRequest(s, TRUE, StatusOK)
    \/ \E s \in TaskIds : SubmitInsert(s, TRUE, TRUE)
    \/ \E s \in TaskIds, ok \in Outcomes : SubmitCharge(s, ok)

\* submissions priced from the ratios in force
SpecPrice == InitPrice /\ [][NextPrice]_vars

\* the answers of the provider followed: every status with an error body,
\* with a pending and with a done poll response
PollAnswers ==
    {PollAnswer(code, b[1], b[2], b[3]) :
        code \in {StatusOK, StatusBadRequest, StatusUnauthorized, StatusForbidden,
                  StatusNotFound, StatusInternalServerError},
        b \in {<<ReasonModeration, "", 0>>, <<ReasonInternal, "", 0>>,
                <<"", "pending", 0>>, <<"", "done", ShortDur>>, <<"", "", 0>>}}

\* the sweep of one xAI task, polled through the adaptor
NextPoll ==
    \/ \E id \in TaskIds : SweepLoad(id)
    \/ \E uok \in Outcomes, lok \in Outcomes : SweepTimeout(uok, lok)
    \/ \E answer \in PollAnswers, uok \in Outcomes, lok \in Outcomes :
            SweepPoll(answer, uok, lok)
    \/ Tick

InitPoll ==
    \E action \in {TaskActionGenerate, TaskActionEdit}, q \in QuotaChoices :
        /\ tasks = [id \in TaskIds |->
                      IF id = 1
                        THEN InitTask(ChannelTypeXai, action, q,
                                      IF action = TaskActionEdit THEN 1 ELSE 0, 1)
                        ELSE NoTask]
        /\ userQuota = InitBalance - q
        /\ tokenQuota = InitBalance - q
        /\ now = 1
        /\ sweep = Idle
        /\ fetch = [f \in Fetchers |-> Idle]
        /\ subs = NoSubs
        /\ audit = [id \in TaskIds |->
                      IF id = 1 THEN [NoAudit EXCEPT !.charged = q] ELSE NoAudit]
        /\ polls = 0
        /\ cfg = [modelRatio |-> 0, groupRatio |-> 1, faulty |-> FALSE,
                  mapping |-> NoMapping, payloads |-> FALSE, price |-> NoPrice]

SpecPoll == InitPoll /\ [][NextPoll]_vars

\* the same reconciliation where row writes and ledger mutations can fail
InitFault == InitRecon(TRUE)

SpecFault == InitFault /\ [][Next]_vars

\* the sweep of one token-metered task, with and without a token on its row,
\* where row writes and ledger mutations can fail
InitToken ==
    \E q \in QuotaChoices, tokenId \in {0, 1} :
        /\ tasks = [id \in TaskIds |->
                      IF id = 1
                        THEN InitTask(ChannelTypeVolc, TaskActionGenerate, q, tokenId, 1)
                        ELSE NoTask]
        /\ userQuota = InitBalance - q
        /\ tokenQuota = InitBalance - q
        /\ now = 1
        /\ sweep = Idle
        /\ fetch = [f \in Fetchers |-> Idle]
        /\ subs = NoSubs
        /\ audit = [id \in TaskIds |->
                      IF id = 1 THEN [NoAudit EXCEPT !.charged = q] ELSE NoAudit]
        /\ polls = 0
        /\ cfg = [modelRatio |-> 1, groupRatio |-> 1, faulty |-> TRUE,
                  mapping |-> NoMapping, payloads |-> FALSE, price |-> NoPrice]

NextToken ==
    \/ \E id \in TaskIds : SweepLoad(id)
    \/ SweepChannelLost
    \/ \E uok \in Outcomes, lok \in Outcomes : SweepTimeout(uok, lok)
    \/ SweepPollError
    \/ \E res \in VolcParseTaskResult, uok \in Outcomes, lok \in Outcomes :
            SweepReconcile(res, uok, lok)
    \/ Tick

SpecToken == InitToken /\ [][NextToken]_vars

\* the sweep alone, with a store and a ledger that work
NextSweep ==
    \/ \E id \in TaskIds : SweepLoad(id)
    \/ SweepChannelLost
    \/ SweepTimeout(TRUE, TRUE)
    \/ SweepPollError
    \/ \E res \in XaiParseTaskResult \cup VolcParseTaskResult \cup GatewayTaskResult :
            SweepReconcile(res, TRUE, TRUE)
    \/ Tick

\* the handler, once it has its task, returns: by the timeout branch, by a
\* poll error or with the poll's result
SweepReturns ==
    \/ SweepTimeout(TRUE, TRUE)
    \/ SweepPollError
    \/ \E res \in XaiParseTaskResult \cup VolcParseTaskResult \cup GatewayTaskResult :
            SweepReconcile(res, TRUE, TRUE)

\* the sweep is run again and again over the unfinished tasks, each run of
\* the handler returns, and time passes
SweepFairness ==
    /\ WF_vars(\E id \in TaskIds : SweepLoad(id))
    /\ WF_vars(SweepReturns)
    /\ WF_vars(Tick)

SpecLive == Init /\ [][NextSweep]_vars /\ SweepFairness

\* the batches asked: the first task, all the ids
Batches == {{1}, TaskIds}

\* the task id the remix request takes
Remixer == MaxSubmitters

\* one task of either user, fetched by id or in a batch and remixed by
\* either user
InitScope ==
    \E u \in UserIds :
        /\ tasks = [id \in TaskIds |->
                      IF id = 1
                        THEN [InitTask(ChannelTypeXai, TaskActionGenerate, MaxQuota, 0, 1)
                                EXCEPT !.userId = u]
                        ELSE NoTask]
        /\ userQuota = InitBalance - MaxQuota
        /\ tokenQuota = InitBalance - MaxQuota
        /\ now = 1
        /\ sweep = Idle
        /\ fetch = [f \in Fetchers |-> Idle]
        /\ subs = [s \in TaskIds |-> IF s = Remixer THEN NewSub ELSE [pc |-> "none"]]
        /\ audit = [id \in TaskIds |->
                      IF id = 1 THEN [NoAudit EXCEPT !.charged = MaxQuota] ELSE NoAudit]
        /\ polls = 0
        /\ cfg = [modelRatio |-> 0, groupRatio |-> 1, faulty |-> FALSE,
                  mapping |-> NoMapping, payloads |-> FALSE, price |-> NoPrice]

\* the poll results followed where the lookups are examined
ScopeResults ==
    {TaskInfo(TaskStatusSuccess, "", ShortDur, 0),
     TaskInfo(TaskStatusFailure, ReasonExpired, 0, 0)}

NextScope ==
    \/ \E f \in Fetchers, userId \in UserIds, id \in TaskIds : FetchRead(f, userId, id)
    \/ \E f \in Fetchers : FetchNoPoll(f)
    \/ \E f \in Fetchers, ti \in ScopeResults : FetchReconcile(f, ti, TRUE, TRUE)
    \/ \E f \in Fetchers, userId \in UserIds, id \in TaskIds : SunoFetchByID(f, userId, id)
    \/ \E f \in Fetchers, userId \in UserIds, ids \in Batches : SunoFetch(f, userId, ids)
    \/ \E userId \in UserIds, originTaskId \in TaskIds \cup {0} :
            SubmitBegin(Remixer, userId, TaskActionRemix, "A", originTaskId, TRUE, 1)
    \/ \E upstream \in {TransportError, StatusOK} : SubmitRequest(Remixer, TRUE, upstream)
    \/ SubmitInsert(Remixer, TRUE, TRUE)
    \/ \E ok \in Outcomes : SubmitCharge(Remixer, ok)

\* the requests of two users for each other's tasks
SpecScope == InitScope /\ [][NextScope]_vars

\* the relay modes requested
RelayModes == fetchRespBuilders \cup {RelayModeUnknown}

NextFetch ==
    \/ \E f \in Fetchers, relayMode \in RelayModes, userId \in UserIds,
          id \in TaskIds, ids \in Batches :
            RelayTaskFetch(f, relayMode, userId, id, ids)
    \/ \E f \in Fetchers : FetchNoPoll(f)
    \/ \E f \in Fetchers, ti \in XaiParseTaskResult : FetchReconcile(f, ti, TRUE, TRUE)

\* fetch requests of every relay mode for one task of either user
SpecFetch == InitScope /\ [][NextFetch]_vars

\* the batches followed: two tasks of one channel, of two channels in
\* either order, and a channel without tasks before theirs
ChannelOrders ==
    {<<(<<1, 2>>)>>, <<(<<1>>), (<<2>>)>>, <<(<<2>>), (<<1>>)>>, <<(<<>>), (<<2, 1>>)>>}

\* the ids of a batch
BatchIds(order) == UNION {Range(order[i]) : i \in DOMAIN order}

\* two submitted tasks of one user, an edit and a generation, where row
\* writes and ledger mutations can fail
InitBatch ==
    \E q \in QuotaChoices \ {0}, platform \in {ChannelTypeXai, ChannelTypeVolc} :
        /\ tasks = [id \in TaskIds |->
                      IF id = 1 THEN InitTask(ChannelTypeXai, TaskActionEdit, q, 1, 1)
                      ELSE IF id = 1 + 1 THEN InitTask(platform, TaskActionGenerate, 1, 0, 1)
                      ELSE NoTask]
        /\ userQuota = InitBalance - q - 1
        /\ tokenQuota = InitBalance - q - 1
        /\ now = 1
        /\ sweep = Idle
        /\ fetch = [f \in Fetchers |-> Idle]
        /\ subs = NoSubs
        /\ audit = [id \in TaskIds |->
                      IF id = 1 THEN [NoAudit EXCEPT !.charged = q]
                      ELSE IF id = 1 + 1 THEN [NoAudit EXCEPT !.charged = 1]
                      ELSE NoAudit]
        /\ polls = 0
        /\ cfg = [modelRatio |-> 0, groupRatio |-> 1, faulty |-> TRUE,
                  mapping |-> NoMapping, payloads |-> FALSE, price |-> NoPrice]

NextBatch ==
    \/ \E order \in ChannelOrders : BatchBegin(order)
    \/ \E lookup \in {"ok", "lost", "no_adaptor"}, uok \in Outcomes : BatchChannel(lookup, uok)
    \/ \E polled \in BOOLEAN,
          poll \in XaiParseTaskResult \cup VolcParseTaskResult \cup GatewayTaskResult,
          uok \in Outcomes, lok \in Outcomes : BatchTask(polled, poll, uok, lok)
    \/ BatchReturn
    \/ Tick

\* one call of UpdateVideoTaskAll on a batch of two tasks
SpecBatch == InitBatch /\ [][NextBatch]_vars

----------------------------------------------------------------------------
(* Properties *)

SweepMoves == sweep.pc = "loaded" /\ sweep' # sweep
FetchMoves(f) == fetch[f].pc = "read" /\ fetch'[f] # fetch[f]
BalancesUnchanged == userQuota' = userQuota /\ tokenQuota' = tokenQuota

\* a lookup answered a row or an id only to the user the row belongs to, and
\* answered task_not_exist for an id that is another user's row
ScopedAnswers ==
    /\ \A f \in Fetchers :
          /\ fetch[f].pc = "read" => fetch[f].t.userId = fetch[f].user
          /\ fetch[f].pc = "answered" =>
                /\ fetch[f].t # NoTask => fetch[f].t.userId = fetch[f].user
                /\ \A id \in fetch[f].ids : tasks[id].userId = fetch[f].user
    /\ \A s \in TaskIds :
          subs[s].pc \notin {"none", "start"} /\ "lookup" \in subs[s].did =>
              \/ subs[s].err = "task_not_exist"
              \/ tasks[subs[s].originTaskId].userId = subs[s].user

\* id is the row of another user than userId
Foreign(userId, id) == tasks[id] # NoTask /\ tasks[id].userId # userId

\* fetcher f was answered, and an id it asked for is another user's row
ForeignFetch(f) ==
    /\ fetch[f].pc = "answered"
    /\ \E id \in fetch[f].asked : Foreign(fetch[f].user, id)

\* the origin task of the remix s is another user's row
ForeignRemix(s) ==
    /\ subs[s].pc \notin {"none", "start"}
    /\ subs[s].originTaskId # 0
    /\ tasks[subs[s].originTaskId] # NoTask
    /\ tasks[subs[s].originTaskId].userId # subs[s].user

\* the step answered a request for an id that is no row of the requester
AnswersNotExist ==
    \/ \E f \in Fetchers : fetch'[f] # fetch[f] /\ fetch'[f].pc = "answered"
                               /\ fetch'[f].err = "task_not_exist"
    \/ \E s \in TaskIds : subs'[s] # subs[s] /\ subs'[s].pc = "done"
                             /\ subs'[s].err = "task_not_exist"

\* C19: the fetches by id (sunoFetchByID, videoFetchByID) and the remix
\* origin-task lookup resolve tasks by the requesting user's id: a task owned
\* by a different user is reported as task_not_exist and is never returned,
\* polled upstream, billed or modified on behalf of the requester; the batch
\* fetch (sunoFetch) resolves by the requesting user's id too, and leaves such
\* a task out of the list it answers with code success.
C19_LookupsAreUserScoped ==
    [][/\ ScopedAnswers'
       /\ \A f \in Fetchers :
             ForeignFetch(f)' =>
                 \/ fetch'[f].err = "task_not_exist"
                 \/ /\ fetch'[f].err = "" /\ fetch'[f].t = NoTask
                    /\ \A id \in fetch'[f].ids : ~Foreign(fetch[f].user, id)'
       /\ \A s \in TaskIds : ForeignRemix(s)' => subs'[s].err = "task_not_exist"
       /\ AnswersNotExist =>
             /\ tasks' = tasks /\ audit' = audit /\ polls' = polls
             /\ userQuota' = userQuota /\ tokenQuota' = tokenQuota]_vars

\* C19 as stated: every fetch operation, the batch fetch among them, reports
\* a task owned by a different user as task_not_exist.
C19_EveryFetchReportsNotExist ==
    \A f \in Fetchers : ForeignFetch(f) => fetch[f].err = "task_not_exist"

\* a user asked for the other user's task as the origin of a remix, which
\* was answered task_not_exist, and in a batch, which was answered an empty
\* list
C19_Witness ==
    /\ \E s \in TaskIds : ForeignRemix(s) /\ subs[s].err = "task_not_exist"
    /\ \E f \in Fetchers : ForeignFetch(f) /\ fetch[f].err = "" /\ fetch[f].ids = {}

\* the sweep's step is one in which a ledger mutation it needed returned an
\* error: the step of the failing ledger, and not a step of the working one
LedgerFailed ==
    \/ \E uok \in BOOLEAN :
          SweepTimeout(uok, FALSE) /\ ~SweepTimeout(uok, TRUE)
    \/ \E res \in XaiParseTaskResult \cup VolcParseTaskResult \cup GatewayTaskResult,
          uok \in BOOLEAN :
          SweepReconcile(res, uok, FALSE) /\ ~SweepReconcile(res, uok, TRUE)

\* C20: if a required ledger mutation fails during reconciliation
\* (DecreaseUserQuota or IncreaseUserQuota returns an error during settlement
\* or refund), the task is not persisted as terminal: its stored status stays
\* non-terminal so that the transition and its billing are retried on a later
\* sweep.
C20_LedgerFailureKeepsTaskOpen ==
    [][sweep.pc = "loaded" /\ tasks[sweep.id].status \notin Terminal /\ LedgerFailed
         => tasks'[sweep.id].status \notin Terminal]_vars

\* the sweep's step is one in which task.Update returned an error
UpdateFailed ==
    \/ \E lok \in BOOLEAN : SweepTimeout(FALSE, lok)
    \/ \E res \in XaiParseTaskResult \cup VolcParseTaskResult \cup GatewayTaskResult,
          lok \in BOOLEAN : SweepReconcile(res, FALSE, lok)

\* C21: in reconciliation, no credit or debit to a user's or token's balance
\* for a status transition is performed unless the task-row update that
\* records the transition has succeeded: whenever task.Update fails, every
\* balance is left unchanged for that step.
C21_NoLedgerMutationWithoutUpdate ==
    [][sweep.pc = "loaded" /\ UpdateFailed => BalancesUnchanged]_vars

\* C22: an edit task with reserved quota Q > 0 that goes from a non-Failure
\* state to Failure with a moderation reason is settled rather than refunded,
\* whichever reconciliation path observes the failure: its stored quota
\* becomes max(1, floor(Q * 8.0 / 8.7)) and the user is credited exactly Q
\* minus that amount.
C22_EditModerationIsSettled ==
    [][ \A id \in TaskIds :
          ( /\ tasks[id] # NoTask
            /\ tasks[id].action = TaskActionEdit
            /\ tasks[id].quota > 0
            /\ tasks[id].status # TaskStatusFailure
            /\ tasks'[id].status = TaskStatusFailure
            /\ IsModeration(tasks'[id].failReason) ) =>
              /\ tasks'[id].quota = ModerationQuota(tasks[id].quota)
              /\ userQuota' = userQuota + tasks[id].quota - ModerationQuota(tasks[id].quota)
      ]_vars

C24_PollErrorChangesNothing ==
    [][ SweepPollError =>
          /\ tasks' = tasks
          /\ BalancesUnchanged
          /\ audit' = audit
          /\ tasks[sweep.id].status \notin Terminal =>
                sweep'.pc = "idle" /\ tasks'[sweep.id].status \notin Terminal
      ]_vars

\* the provider was polled, the poll failed, and the task is as submitted
C24_Witness ==
    /\ polls > 0
    /\ sweep = Idle
    /\ tasks[1].status = TaskStatusSubmitted
    /\ tasks[1].quota = audit[1].charged
    /\ audit[1].ops = 0 /\ audit[1].sys = 0 /\ audit[1].consume = 0
    /\ userQuota = InitBalance - audit[1].charged

\* the chain of the table m from the name x: the name after k hops, "" once
\* a name has no entry or an empty one
RECURSIVE Iter(_, _, _)
Iter(m, x, k) ==
    IF k = 0 THEN x
    ELSE LET y == Iter(m, x, k - 1) IN IF y = "" THEN "" ELSE m[y]

Hops == 1 .. Cardinality(ModelNames)

\* the chain from o comes back to o
ReturnsToOrigin(m, o) == \E k \in Hops : Iter(m, o, k) = o

\* the chain from o comes to a name a second time, and that name is not o
RevisitsOther(m, o) ==
    /\ ~ReturnsToOrigin(m, o)
    /\ \E j \in Hops, k \in Hops : j < k /\ Iter(m, o, j) # "" /\ Iter(m, o, j) = Iter(m, o, k)

\* the chain from o ends
Acyclic(m, o) == Iter(m, o, Cardinality(ModelNames)) = ""

\* the hops of an ending chain and its last name
HopCount(m, o) == Cardinality({k \in Hops : Iter(m, o, k) # ""})
ChainTail(m, o) == Iter(m, o, HopCount(m, o))

\* the submission s has applied the mapping
Resolved(s) == subs[s].pc # "start" /\ "mapping" \in subs[s].did

\* the submission s went on with the model unmapped
Unmapped(s) ==
    /\ subs[s].err # "model_mapping_failed"
    /\ ~subs[s].mapped
    /\ subs[s].upstream = ""

\* the submission s was rejected for a cycle, before any charge
RejectedForCycle(s) ==
    /\ subs[s].pc = "done"
    /\ subs[s].err = "model_mapping_failed"
    /\ subs[s].code = StatusBadRequest
    /\ subs[s].did = {"mapping"}
    /\ tasks[s] = NoTask
    /\ audit[s].charged = 0

\* C25: a mapping table in which the origin name maps to itself (A->A) is
\* treated as no mapping: the resolution succeeds, the model stays unmapped
\* and no upstream name is recorded; a table in which the chain leads back to
\* the origin after several hops (A->B->A) is a cycle, and the submission is
\* rejected.
C25_OnlySelfMappedOriginIsIdentity ==
    \A s \in TaskIds :
        Resolved(s) =>
            /\ cfg.mapping[subs[s].origin] = subs[s].origin => Unmapped(s)
            /\ ( /\ ReturnsToOrigin(cfg.mapping, subs[s].origin)
                  /\ cfg.mapping[subs[s].origin] # subs[s].origin ) => RejectedForCycle(s)

\* C25 as stated: every table whose chain leads back to the origin, after
\* one hop or after several, is treated as no mapping.
C25_ReturnToOriginIsIdentity ==
    \A s \in TaskIds :
        Resolved(s) /\ ReturnsToOrigin(cfg.mapping, subs[s].origin) => Unmapped(s)

\* with the table {A -> A, B -> C, C -> B} a request for A went on unmapped
\* and was charged, and a request for B was rejected
C25_Witness ==
    /\ cfg.mapping = MappingOf("A", "C", "B")
    /\ \E s \in TaskIds :
          subs[s].origin = "A" /\ Unmapped(s) /\ "charge" \in subs[s].did
    /\ \E s \in TaskIds : subs[s].origin = "B" /\ RejectedForCycle(s)

\* C26: for every mapping table in which the chain from the origin revisits
\* an already-visited name other than the origin (A->B with B->B, or
\* A->B->C->B), applyTaskModelMapping fails with a cycle error and the
\* submission is rejected with 400 before any charge occurs.
C26_RevisitIsRejected ==
    \A s \in TaskIds :
        Resolved(s) /\ RevisitsOther(cfg.mapping, subs[s].origin) => RejectedForCycle(s)

\* C27: for every acyclic mapping chain from the origin with at least one
\* hop, applyTaskModelMapping ends at the chain tail (the first name that has
\* no non-empty mapping entry), records it as UpstreamModelName and sets
\* IsModelMapped to true; with zero hops (origin absent from the table, mapped
\* to the empty string, or an empty table) it records no upstream name; the
\* mapping table itself is never modified.
C27_AcyclicChainEndsAtTail ==
    [][ /\ cfg'.mapping = cfg.mapping
        /\ \A s \in TaskIds :
              Resolved(s)' /\ Acyclic(cfg.mapping, subs'[s].origin) =>
                  /\ subs'[s].err # "model_mapping_failed"
                  /\ subs'[s].err = "" =>
                        IF HopCount(cfg.mapping, subs'[s].origin) = 0
                          THEN ~subs'[s].mapped /\ subs'[s].upstream = ""
                          ELSE /\ subs'[s].mapped
                               /\ subs'[s].upstream = ChainTail(cfg.mapping, subs'[s].origin)
      ]_vars

\* with the table {A -> B, B -> C} a request for A was sent for C and
\* charged, and a request for C went on unmapped
C27_Witness ==
    /\ cfg.mapping = MappingOf("B", "C", "")
    /\ \E s \in TaskIds :
          /\ subs[s].origin = "A" /\ subs[s].mapped /\ subs[s].upstream = "C"
          /\ "charge" \in subs[s].did
    /\ \E s \in TaskIds :
          subs[s].origin = "C" /\ Resolved(s) /\ Unmapped(s)

\* the product of ratios in tenths, as a fraction n / d
RECURSIVE Product(_)
Product(ratios) ==
    IF ratios = <<>> THEN [n |-> 1, d |-> 1]
    ELSE LET rest == Product(Tail(ratios))
         IN  [n |-> Head(ratios) * rest.n, d |-> Tenth * rest.d]

C29_PersistedTaskIsDebited ==
    \A s \in TaskIds :
        subs[s].pc = "done" /\ subs[s].err = "" =>
            /\ tasks[s] # NoTask
            /\ tasks[s].status = TaskStatusSubmitted
            /\ tasks[s].quota = subs[s].quota
            /\ audit[s].charged = tasks[s].quota

\* the client-error statuses
ClientErrors == {StatusBadRequest, StatusUnauthorized, StatusForbidden, StatusNotFound}

\* C30: the xAI adaptor's poll turns an HTTP 404 into a synthetic 'expired'
\* response that normalizes to Failure with reason 'request expired' instead of
\* a poll error, and passes every 4xx response body through to normalization
\* so that a failure reason is extracted by the state machine rather than the
\* poll returning an error.
C30_ClientErrorsBecomeFailures ==
    [][ \A answer \in PollAnswers :
          ( /\ answer.code \in ClientErrors
            /\ sweep.pc = "loaded"
            /\ SweepPoll(answer, TRUE, TRUE) ) =>
              /\ answer.code = StatusNotFound =>
                    /\ tasks'[sweep.id].status = TaskStatusFailure
                    /\ tasks'[sweep.id].failReason = ReasonExpired
              /\ answer.code # StatusNotFound /\ answer.error # "" =>
                    /\ tasks'[sweep.id].status = TaskStatusFailure
                    /\ tasks'[sweep.id].failReason = answer.error
      ]_vars

\* the poll results that report a task waiting
Waiting == {TaskInfo(st, "", 0, 0) : st \in {TaskStatusSubmitted, TaskStatusQueued}}

\* C31: a task's StartTime is set the first time a poll reports InProgress
\* and is never changed by any later poll; polls reporting Submitted or Queued
\* apply no billing effect and leave quota and every balance unchanged.
C31_WaitingPollsBillNothing ==
    [][ /\ \A id \in TaskIds :
              tasks[id] # NoTask /\ tasks[id].startTime # 0 =>
                  tasks'[id].startTime = tasks[id].startTime
        /\ ( /\ sweep.pc = "loaded"
             /\ tasks[sweep.id].startTime = 0
             /\ SweepReconcile(TaskInfo(TaskStatusInProgress, "", 0, 0), TRUE, TRUE) ) =>
               tasks'[sweep.id].startTime = now
        /\ \A res \in Waiting :
              /\ ( sweep.pc = "loaded" /\ SweepReconcile(res, TRUE, TRUE) ) =>
                    /\ tasks'[sweep.id].quota = tasks[sweep.id].quota
                    /\ BalancesUnchanged
                    /\ audit' = audit
              /\ \A f \in Fetchers :
                    ( fetch[f].pc = "read" /\ FetchReconcile(f, res, TRUE, TRUE) ) =>
                        /\ tasks'[fetch[f].id].quota = tasks[fetch[f].id].quota
                        /\ BalancesUnchanged
                        /\ audit' = audit
      ]_vars

\* C32: over any interleaving of sweep, timeout handling and on-demand fetch
\* acting on the same task (each possibly holding a stale in-memory copy of
\* the task), the total amount credited to the user's balance for that task
\* never exceeds the total amount debited for it.
C32_CreditsWithinDebits ==
    \A id \in TaskIds :
        audit[id].credited <= audit[id].charged + audit[id].debited

\* what a reconciliation with effects e persists and does to the balances
\* when the row write and the ledger work
Outcome(e) ==
    [status |-> e.task.status, quota |-> e.task.quota,
     user |-> e.user + e.refund,
     token |-> e.token + (IF HasToken(e.task) THEN e.refund ELSE 0)]

\* the terminal poll results
TerminalResults == {ti \in XaiParseTaskResult : ti.status \in Terminal}

\* C33: for the same stored task and the same normalized poll result, the
\* on-demand fetch path (videoFetchByIDRespBodyBuilder) and the scheduled
\* sweep (updateVideoSingleTask) produce the same persisted status and quota
\* and the same change to the user's and token's balances, for every action
\* (generate, edit, remix) and every terminal outcome (success, moderation
\* failure, other failure).
C33_FetchAgreesWithSweep ==
    \A f \in Fetchers, ti \in TerminalResults :
        ( /\ sweep.pc = "loaded"
          /\ fetch[f].pc = "read"
          /\ sweep.id = fetch[f].id
          /\ sweep.t = fetch[f].t ) =>
            Outcome(SweepEffects(sweep.t, ti, TRUE)) = Outcome(FetchEffects(fetch[f].t, ti, TRUE))

\* C34: with VideoTaskTimeoutMinutes > 0, a nonzero SubmitTime, a task store
\* whose updates succeed, and the sweep run repeatedly (weak fairness) over
\* every task that is still non-terminal, every submitted task eventually
\* reaches Success or Failure, whatever the provider answers (including polls
\* that always fail or always report a non-terminal or unknown status).
C34_EveryTaskEnds ==
    \A id \in TaskIds :
        ( /\ tasks[id] # NoTask
          /\ tasks[id].submitTime > 0
          /\ tasks[id].status \notin Terminal ) ~> tasks[id].status \in Terminal

\* every poll the provider was asked failed or left the task open, and the
\* task was ended by the timeout
C34_Witness ==
    /\ VideoTaskTimeoutMinutes > 0
    /\ polls = MaxPolls
    /\ tasks[1].submitTime > 0
    /\ tasks[1].status = TaskStatusFailure
    /\ tasks[1].failReason = ReasonTimedOut
    /\ tasks[1].finishTime = now

\* C35: every task persisted in Success or Failure by any reconciliation path
\* (sweep poll result, sweep timeout, channel-lookup failure bulk update,
\* on-demand fetch) has a nonzero FinishTime.
C35_TerminalHasFinishTime ==
    \A id \in TaskIds :
        tasks[id] # NoTask /\ tasks[id].status \in Terminal => tasks[id].finishTime # 0

\* C36: RelayTaskFetch called with a relay mode that has no registered
\* response builder returns the invalid_relay_mode error (status 400) without
\* invoking any builder and without writing a response body.
C36_UnknownModeIsRejected ==
    [][ \A f \in Fetchers, relayMode \in RelayModes \ fetchRespBuilders,
           userId \in UserIds, id \in TaskIds, ids \in Batches :
          RelayTaskFetch(f, relayMode, userId, id, ids) =>
              /\ fetch'[f].pc = "answered"
              /\ fetch'[f].err = "invalid_relay_mode"
              /\ fetch'[f].t = NoTask /\ fetch'[f].ids = {}
              /\ tasks' = tasks /\ polls' = polls /\ BalancesUnchanged
      ]_vars

\* the distinct names of a table: its keys and the names they map to
TableNames(m) ==
    {x \in ModelNames : m[x] # ""} \cup ({m[x] : x \in ModelNames} \ {""})

\* the lookups of one resolution: none for an empty table
Lookups(m, o) == IF m = NoMapping THEN 0 ELSE MappingLookups(m, o, {o})

\* C37: applyTaskModelMapping terminates for every finite mapping table and
\* every origin name, after at most as many lookups as there are distinct
\* names in the table plus one, returning either success or a cycle error.
C37_MappingTerminates ==
    \A s \in TaskIds :
        Resolved(s) =>
            LET r == ApplyTaskModelMapping(cfg.mapping, subs[s].origin)
            IN  /\ r.err \in {"", "cycle"}
                /\ subs[s].err = "model_mapping_failed" <=> r.err = "cycle"
                /\ Lookups(cfg.mapping, subs[s].origin)
                      <= Cardinality(TableNames(cfg.mapping)) + 1

\* with the table {A -> B, B -> C, C -> A} a request for A was rejected for
\* the cycle after one lookup for each name
C37_Witness ==
    /\ cfg.mapping = MappingOf("B", "C", "A")
    /\ Lookups(cfg.mapping, "A") = Cardinality(ModelNames)
    /\ \E s \in TaskIds : subs[s].origin = "A" /\ RejectedForCycle(s)

\* the ids of a batch that are still to be taken up
Remaining(sw) == Range(sw.ids) \cup BatchIds(sw.channels)

\* the ids the next step of the batch is about: the task at hand, or the
\* tasks of the channel at hand
Touched(sw) ==
    IF sw.pc = "tasks" THEN {Head(sw.ids)}
    ELSE IF sw.channels # <<>> THEN Range(Head(sw.channels))
    ELSE {}

\* what the ledger did for task id in the step
Net(id) ==
    (audit'[id].credited - audit[id].credited) - (audit'[id].debited - audit[id].debited)

\* C38: in UpdateVideoTaskAll, a failure while reconciling one channel or one
\* task (channel lookup error, missing adaptor, poll error, parse error,
\* store update error) does not stop the remaining channels and tasks of the
\* batch from being reconciled and does not change the stored state or
\* balances of those other tasks; UpdateVideoTaskAll itself always returns
\* nil.
C38_FailuresStayLocal ==
    [][ ( sweep.pc \in {"channels", "tasks"} /\ sweep' # sweep ) =>
          /\ \A other \in TaskIds \ Touched(sweep) :
                tasks'[other] = tasks[other] /\ audit'[other] = audit[other]
          /\ userQuota' - userQuota =
                IF sweep.pc = "tasks" THEN Net(Head(sweep.ids)) ELSE 0
          /\ Remaining(sweep) \ Touched(sweep) \subseteq Remaining(sweep')
          /\ sweep'.taskM = sweep.taskM
          /\ sweep'.pc = "returned" =>
                /\ sweep'.ret = "nil"
                /\ Range(sweep'.seen) = {id \in TaskIds : sweep.taskM[id] # NoTask}
      ]_vars

\* the batch returned nil; the handler of the first task returned an error
\* and left the task as it was, and the second task, taken up after it, was
\* polled and stored as Success
C38_Witness ==
    /\ sweep.pc = "returned"
    /\ sweep.ret = "nil"
    /\ sweep.seen = <<1, 1 + 1>>
    /\ sweep.errs = <<1>>
    /\ polls = 1 + 1
    /\ tasks[1] = sweep.taskM[1]
    /\ tasks[1 + 1].status = TaskStatusSuccess
    /\ tasks[1 + 1].finishTime # 0

\* the step is the sweep's settlement of task id by the tokens used, at a
\* cost above the stored quota
TokenSettlementAbove(id) ==
    /\ sweep.pc = "loaded"
    /\ sweep.id = id
    /\ cfg.modelRatio > 0
    /\ \E res \in VolcParseTaskResult, uok \in BOOLEAN, lok \in BOOLEAN :
          /\ res.status = TaskStatusSuccess
          /\ res.tokens > 0
          /\ TokenQuota(res.tokens) > tasks[id].quota
          /\ SweepReconcile(res, uok, lok)

\* C39: in every reachable state a task's stored quota is >= 0, and no
\* reconciliation step other than a token-metered settlement whose actual
\* cost exceeds the stored quota ever increases it: duration settlement,
\* moderation settlement, failure refund and timeout refund only keep or lower
\* the stored quota.
C39_QuotaOnlyGoesDown ==
    [][ \A id \in TaskIds :
          ( tasks[id] # NoTask /\ tasks'[id] # NoTask ) =>
              /\ tasks'[id].quota >= 0
              /\ tasks'[id].quota > tasks[id].quota => TokenSettlementAbove(id)
      ]_vars

\* C1: a reconciliation that read the task as non-terminal and finds, when
\* it acts, that another reconciliation has already made the stored task
\* terminal (it lost the race) applies no ledger mutation, so that exactly one
\* billing effect is applied per terminal transition.
C1_LoserAppliesNoLedgerMutation ==
    [][ /\ ( /\ SweepMoves
             /\ sweep.t.status \notin Terminal
             /\ tasks[sweep.id].status \in Terminal ) => BalancesUnchanged
        /\ \A f \in Fetchers :
             ( /\ FetchMoves(f)
               /\ fetch[f].t.status \notin Terminal
               /\ tasks[fetch[f].id].status \in Terminal ) => BalancesUnchanged
      ]_vars

\* C2: a reconciliation that read the task after it was persisted as Success
\* or Failure leaves its status and quota unchanged and changes no balance,
\* whatever the provider answers.
C2_TerminalIsFinal ==
    [][ /\ ( SweepMoves /\ sweep.t.status \in Terminal ) =>
             /\ tasks'[sweep.id].status = tasks[sweep.id].status
             /\ tasks'[sweep.id].quota = tasks[sweep.id].quota
             /\ BalancesUnchanged
        /\ \A f \in Fetchers :
             ( FetchMoves(f) /\ fetch[f].t.status \in Terminal ) =>
               /\ tasks'[fetch[f].id].status = tasks[fetch[f].id].status
               /\ tasks'[fetch[f].id].quota = tasks[fetch[f].id].quota
               /\ BalancesUnchanged
      ]_vars

\* C3: when a stored non-terminal task of any action is persisted as Failure
\* with a reason that is not moderation (a failure the provider reported, or
\* the timeout), by the sweep's handler or by the fetch, its quota becomes 0 and the user is credited exactly the quota that was charged.
C3_FailureRefundsInFull ==
    [][ \A id \in TaskIds :
          ( /\ tasks[id] # NoTask
            /\ tasks[id].status \notin Terminal
            /\ tasks'[id].status = TaskStatusFailure
            /\ tasks'[id].failReason # ReasonChannel
            /\ ~IsModeration(tasks'[id].failReason) ) =>
              /\ tasks'[id].quota = 0
              /\ userQuota' = userQuota + tasks[id].quota
      ]_vars

\* C4: the user's balance never becomes negative, under any interleaving of
\* concurrent submissions of the same user.
C4_BalanceNeverNegative == userQuota >= 0

\* max(1, floor(Q * min(d, C) / C)) with C the cap of 8.7 s
SettledQuota(q, d) ==
    LET floor == (q * Min(d, MaxDurationTenths)) \div MaxDurationTenths
    IN  IF floor >= 1 THEN floor ELSE 1

Rank(status) ==
    CASE status = TaskStatusSubmitted -> 0
      [] status = TaskStatusQueued -> 1
      [] status = TaskStatusInProgress -> 2
      [] status \in Terminal -> 3
      [] OTHER -> 0

\* C6: the stored status of a task never moves backward in the order
\* Submitted < Queued < InProgress < {Success, Failure}.
C6_StatusNeverMovesBackward ==
    [][ \A id \in TaskIds :
          ( tasks[id] # NoTask /\ tasks'[id] # NoTask ) =>
            Rank(tasks'[id].status) >= Rank(tasks[id].status)
      ]_vars

\* C7: a poll response that carries no status leaves the task non-terminal
\* and applies no refund, settlement or charge.
C7_EmptyStatusIsTransient ==
    [][ ( /\ SweepReconcile(TaskInfo("", "", 0, 0), TRUE, TRUE)
          /\ tasks[sweep.id].status \notin Terminal ) =>
            /\ tasks'[sweep.id].status \notin Terminal
            /\ BalancesUnchanged
      ]_vars

\* C8: when the sweep's handler runs for a task it read as non-terminal and
\* whose age exceeds the timeout, the task is stored as Failure with the timed-out
\* reason and quota 0, the user is credited the task's whole quota by one
\* ledger credit (none when the quota is 0), and the provider is not polled.
C8_TimeoutRefundsWithoutPoll ==
    [][ ( /\ SweepMoves
          /\ TimedOut(sweep.t)
          /\ sweep.t.status \notin Terminal
          /\ SweepTimeout(TRUE, TRUE) ) =>
            /\ tasks'[sweep.id].status = TaskStatusFailure
            /\ tasks'[sweep.id].failReason = ReasonTimedOut
            /\ tasks'[sweep.id].quota = 0
            /\ userQuota' = userQuota + sweep.t.quota
            /\ audit'[sweep.id].ops =
                 audit[sweep.id].ops + (IF sweep.t.quota > 0 THEN 1 ELSE 0)
            /\ polls' = polls
      ]_vars

\* C8 witness: a task charged MaxQuota was never polled, timed out, and is
\* stored as a timed-out Failure with quota 0 and the charge credited back.
C8_Witness ==
    /\ tasks[1].status = TaskStatusFailure
    /\ tasks[1].failReason = ReasonTimedOut
    /\ tasks[1].quota = 0
    /\ audit[1].charged = MaxQuota
    /\ audit[1].credited = MaxQuota
    /\ userQuota = InitBalance
    /\ polls = 0

\* C9: when a stored task that is not an edit and carries a charge is
\* persisted as Failure with a moderation reason, its quota and the user's and
\* the token's balances are unchanged and exactly one audit log entry, with
\* quota 0, is written.
C9_ModerationKeepsChargeAndLogs ==
    [][ \A id \in TaskIds :
          ( /\ tasks[id] # NoTask
            /\ tasks[id].action # TaskActionEdit
            /\ tasks[id].quota > 0
            /\ tasks[id].status # TaskStatusFailure
            /\ tasks'[id].status = TaskStatusFailure
            /\ IsModeration(tasks'[id].failReason) ) =>
              /\ tasks'[id].quota = tasks[id].quota
              /\ BalancesUnchanged
              /\ audit'[id].zero = audit[id].zero + 1
              /\ audit'[id].consume + audit'[id].sys
                   = audit[id].consume + audit[id].sys + 1
      ]_vars

\* C10: with the channel mapping {A -> B, B -> A}, a submission for model A
\* that gets as far as the mapping (a remix has its video_id and origin task)
\* ends with model_mapping_failed and status 400 having done nothing but the
\* mapping (no validation, pricing, upstream request or insert): no task
\* exists for it and nothing was charged for it.
C10_CycleRejectedBeforeCharge ==
    \A s \in TaskIds :
        ( /\ cfg.mapping = CycleAB
          /\ subs[s].pc # "start"
          /\ "mapping" \in subs[s].did
          /\ subs[s].origin = "A" ) =>
            /\ subs[s].pc = "done"
            /\ subs[s].err = "model_mapping_failed"
            /\ subs[s].code = StatusBadRequest
            /\ subs[s].did \ {"lookup"} = {"mapping"}
            /\ tasks[s] = NoTask
            /\ audit[s].charged = 0

\* C10 witness: under {A -> B, B -> A} a submission for A was rejected while
\* another submission of the same user (for C) was charged.
C10_Witness ==
    /\ cfg.mapping = CycleAB
    /\ \E s \in TaskIds :
         /\ subs[s].origin = "A"
         /\ subs[s].err = "model_mapping_failed"
         /\ subs[s].did = {"mapping"}
    /\ \E s \in TaskIds : subs[s].origin = "C" /\ audit[s].charged > 0

\* C11: with the channel mapping {A -> A}, a submission for model A that gets
\* as far as the mapping (a remix has its video_id and origin task) passes
\* the mapping without error and unmapped (IsModelMapped false, no upstream
\* model name) and goes on to validation, pricing and the upstream request.
C11_SelfMappingIsNoOp ==
    \A s \in TaskIds :
        ( /\ cfg.mapping = SelfA
          /\ subs[s].origin = "A"
          /\ "mapping" \in subs[s].did
          /\ subs[s].pc # "start" ) =>
            /\ subs[s].err # "model_mapping_failed"
            /\ "validate" \in subs[s].did
            /\ subs[s].mapped = FALSE
            /\ subs[s].upstream = ""
            /\ subs[s].pc = "sent" => "request" \in subs[s].did

\* C11 witness: under {A -> A} a submission for A was priced, sent upstream,
\* inserted and charged, unmapped.
C11_Witness ==
    /\ cfg.mapping = SelfA
    /\ \E s \in TaskIds :
         /\ subs[s].origin = "A"
         /\ subs[s].pc = "done"
         /\ subs[s].err = ""
         /\ subs[s].mapped = FALSE
         /\ subs[s].did = {"mapping", "validate", "price", "request", "insert", "charge"}
         /\ subs[s].action = TaskActionGenerate
         /\ tasks[s] # NoTask
         /\ audit[s].charged = MaxQuota

\* C12: a step of RelayTaskSubmit that ends the request with an error leaves
\* the task store and the user's and the token's balances as they were, and
\* the request has no task row and no charge: only the success return debits.
C12_ErrorReturnChargesNothing ==
    [][ \A s \in TaskIds :
          ( subs'[s] # subs[s] /\ subs'[s].err # "" ) =>
            /\ tasks' = tasks
            /\ tasks[s] = NoTask
            /\ BalancesUnchanged
            /\ audit'[s].charged = 0
      ]_vars

\* C12 witness: a request failed at the insert, after the provider accepted
\* it, and nothing was stored or charged.
C12_Witness ==
    /\ \E s \in TaskIds :
         /\ subs[s].err = "insert_task_failed"
         /\ "request" \in subs[s].did
         /\ tasks[s] = NoTask
    /\ userQuota = InitBalance
    /\ tokenQuota = InitBalance

\* C13: a submission that reaches the balance check while the user's balance
\* minus the pre-charge is negative ends there with quota_not_enough and 403:
\* no request is built or sent, no task is inserted and no balance changes.
C13_QuotaNotEnoughBeforeRequest ==
    [][ \A s \in TaskIds :
          ( /\ subs[s].pc = "start"
            /\ subs'[s].pc # "start"
            /\ "price" \in subs'[s].did
            /\ userQuota - MaxQuota < 0 ) =>
              /\ subs'[s].pc = "done"
              /\ subs'[s].err = "quota_not_enough"
              /\ subs'[s].code = StatusForbidden
              /\ subs'[s].did \cap {"request", "insert", "charge"} = {}
              /\ tasks' = tasks
              /\ BalancesUnchanged
      ]_vars

\* C13 witness: one submission was charged, and the next one, which the rest
\* of the balance does not cover, was rejected with nothing sent or charged.
C13_Witness ==
    /\ userQuota = InitBalance - MaxQuota
    /\ userQuota < MaxQuota
    /\ \E s \in TaskIds :
         /\ subs[s].err = "quota_not_enough"
         /\ subs[s].code = StatusForbidden
         /\ tasks[s] = NoTask
         /\ audit[s].charged = 0

\* C14: a finished submission answers with success and a stored task, with
\* 400 for a validation failure (mapping cycle, invalid request, missing
\* video_id, unknown origin task), with 403 for insufficient quota, and with a
\* 5xx status for an upstream failure (transport error or non-200 response).
C14_ResponseCodes ==
    \A s \in TaskIds :
        subs[s].pc = "done" =>
            /\ subs[s].err = "" => tasks[s] # NoTask
            /\ subs[s].err \in {"model_mapping_failed", "invalid_request", "task_not_exist"}
                  => subs[s].code = StatusBadRequest
            /\ subs[s].err = "quota_not_enough" => subs[s].code = StatusForbidden
            /\ subs[s].err \in {"do_request_failed", "fail_to_fetch_task"}
                  => subs[s].code >= 500 /\ subs[s].code < 600

\* C15: when the sweep cannot read the channel of a loaded task, it does not
\* poll for it, stores it as Failure with the channel reason and quota 0, and
\* credits the quota that was charged for it to the user.
C15_ChannelLostRefunds ==
    [][ ( /\ SweepMoves
          /\ tasks[sweep.id].status \notin Terminal
          /\ tasks'[sweep.id].failReason = ReasonChannel ) =>
            /\ polls' = polls
            /\ tasks'[sweep.id].status = TaskStatusFailure
            /\ tasks'[sweep.id].quota = 0
            /\ userQuota' = userQuota + tasks[sweep.id].quota
      ]_vars

Quiescent ==
    /\ sweep.pc = "idle"
    /\ \A f \in Fetchers : fetch[f].pc = "idle"

\* C16: whenever no reconciliation is in progress, the stored quota of each
\* task equals what was debited from its user for it (the pre-charge and
\* later additional charges) minus what was credited back for it.
C16_QuotaIsNetCharge ==
    Quiescent =>
        \A id \in TaskIds :
            tasks[id] # NoTask =>
                tasks[id].quota = audit[id].charged + audit[id].debited - audit[id].credited

\* audit log records written for a task: consume logs and system logs
Logs(a) == a.consume + a.sys

\* C17: every step of reconciliation that changes the user's balance writes
\* exactly one audit log record for the task it reconciles.
C17_EveryMutationIsLogged ==
    [][ userQuota' # userQuota =>
          \E id \in TaskIds :
              /\ Logs(audit'[id]) = Logs(audit[id]) + 1
              /\ \A other \in TaskIds \ {id} : audit'[other] = audit[other]
      ]_vars

\* nothing embedded is left: no bytesBase64Encoded, and the video string is
\* at most MaxKeep characters, followed by the marker if it was cut
Redacted(body) ==
    /\ ~body.bytes
    /\ \A i \in DOMAIN body.videos : ~body.videos[i]
    /\ body.video.len <= MaxKeep

\* C18: the data field of every stored task is redacted: reconciliation
\* never writes a body that still has bytesBase64Encoded or a video string
\* longer than 256 characters.
C18_StoredDataIsRedacted ==
    \A id \in TaskIds : tasks[id] # NoTask => Redacted(tasks[id].data)

====
